---- MODULE Spec2Model ----
(***************************************************************************)
(* A model of skntbcn/mysql.migrator.                                      *)
(*                                                                         *)
(*   Spec       one call of migrate_database (db.py:286-313): schema,      *)
(*              the table pool of migrate_database_tables with its         *)
(*              transaction, the routines, the failure ledger;             *)
(*   SpecFleet  run_migration_threads (main.py:164-191): the databases     *)
(*              under the outer pool, each a migrate_database task;        *)
(*   SpecFleetFair  SpecFleet with the scheduler's fairness;               *)
(*   SpecTable  one call of migrate_table_data (db.py:388-642) with an     *)
(*              integer baseline batch size;                               *)
(*   SpecMain   migration_process (main.py:44-161).                        *)
(***************************************************************************)
EXTENDS Integers, Sequences, FiniteSets, TLC

VARIABLES
    \* ---- one migrate_database call (Spec) ----
    db_name,        \* the database the call migrates
    dbpc,           \* position of the call
    stage_failed,   \* the stage whose failure ended the call ("none" when none failed)
    ntables,        \* len(tables) returned by migrate_schema
    tpc,            \* position of each table task of the inner pool
    consumed,       \* the table futures consumed by the loop of db.py:359
    row_count,      \* per table, COUNT(pk) on the source (db.py:418)
    start_batch,    \* per table, the value batch_size has when the loop starts
    dst_count,      \* per table, rows present in the destination table
    checked,        \* tables on which migration_success has run
    check_ok,       \* tables whose migration_success returned True
    committed,      \* dst_conn.commit() was called (db.py:375)
    rolledback,     \* dst_conn.rollback() was called (db.py:368)
    open_pairs,     \* the units whose connection pair is open (connect without close_handlers)
    \* ---- shared by Spec and SpecFleet ----
    failed_log,     \* failed_databases.log, one name per line
    dst_dbs,        \* databases that exist on the destination server
    \* ---- the fleet (SpecFleet) ----
    fleetpc,        \* run_migration_threads: "idle" | "running" | "returned"
    all_process_ok, \* main.py:173
    handled,        \* databases whose future the loop of main.py:182 has consumed
    taskpc,         \* per database, position of its migrate_database task
    \* ---- one migrate_table_data call (SpecTable) ----
    engpc,          \* position of the call
    result,         \* "none" | "ok" (True, None) | "fail" (False, ex) | "raised"
    src_keys,       \* primary-key values of the rows of the source table
    use_pk,         \* pk != '*' and pk_count == 1 after db.py:461 (PK pagination)
    has_long_columns,       \* db.py:473
    original_batch_size,    \* the baseline argument
    dst_initial,    \* the keys the destination table held before the call
    dst_rows,       \* the keys the destination table holds
    first_pk, offset, batch_size, calculated_batch_size,
    increment_batch, increment_batch_blocks,      \* locals of db.py:425-487
    progress_created,       \* db.py:484, 509: progress and insert_query are bound
    rows,           \* the batch of the last fetch (db.py:501)
    errors,         \* errors the servers have raised so far
    errno,          \* the error the except clause of db.py:539 last handled
    reconnected,    \* the last reconnect_to_db of db.py:550 succeeded
    batch_pos,      \* the position (offset or PK cursor) the last fetch started at
    fail_pos,       \* position of the batch a recovered 2013 interrupted, -1 if none
    session,        \* the state of the connection pair the call works on
    fetched_with,   \* batch_size as the last SELECT used it (db.py:496-498)
    elapsed,        \* later - now of the last finished iteration, in milliseconds; 0 if none
    iterations,     \* iterations of the loop that reached db.py:568
    throttled,      \* iterations db.py:580 or db.py:599 found slow
    fast_run,       \* the latest iterations, in a row, that inserted in bulk and
                    \* were not throttled; -1 while an iteration runs whose bulk
                    \* INSERT fell back to single rows
    boosts,         \* boosts (db.py:535-538) since db.py:588-589 last reset the counters
    \* ---- migration_process (SpecMain) ----
    mainpc,         \* position of the call
    arg_skip_dbs,   \* args.skip_dbs (-s)
    arg_keep_dbs,   \* args.keep_dbs (-d)
    server_src,     \* migrable databases of the source server
    existing,       \* migrable databases the destination held at the start
    src_dbs,        \* main.py:61-77, the databases to migrate
    drop_dbs,       \* main.py:62-78, the local dst_dbs: the databases to drop
    dropped,        \* databases remove_databases has dropped (main.py:131)
    arg_check,      \* args.check (-c)
    ledger0,        \* the ledger as the run found it
    failed_now,     \* databases whose migration failed in this run
    dst_data,       \* per database, the rows its tables hold on the destination
    \* ---- add_failed_database under the database threads (SpecLedger) ----
    ledger_pc,      \* per database thread: "ready" | "read" (between read and append)
    seen,           \* per thread, failed_databases as it read the file (failed.py:16)
    adds,           \* per thread, the calls of add_failed_database it has finished
    \* ---- the lock of db.py:22 under the threads of the databases (SpecLock) ----
    db_lock,        \* the thread that holds db_lock, NoThread when it is free
    thr,            \* per thread, its position
    stmts,          \* per table thread, the statements it has executed
    collected,      \* per database, the table futures the loop of db.py:359 consumed
    \* ---- show_results (SpecCheck) ----
    checkpc,        \* position of the call
    src_server,     \* the source server: its databases and the rows of their tables
    dst_server,     \* the destination server, likewise
    processed_dbs,  \* the argument: the databases the run processed, {} for None or []
    check_src_dbs,  \* the local src_dbs of db.py:1113
    check_dst_dbs,  \* the local dst_dbs of db.py:1114
    todo,           \* the databases the running loop has not visited yet
    src_sizes,      \* db.py:1105, row count per <<database, table>> of the source
    dst_sizes,      \* db.py:1106, the same for the destination
    verdict,        \* what the call logged: "none" | "ok" | "ko" | "nodata" | "error"
    named,          \* the keys check_mismatches logged with different counts
    only_source,    \* the databases check_mismatches logged as only in the source
    only_destination,   \* the databases it logged as only in the destination
    \* ---- escape_value (SpecValue) ----
    escpc,          \* "idle" | "call" | "done"
    cell,           \* the argument value: a cell of a fetched row
    column_type,    \* columns[index][1], the declared type of the cell's column
    escaped,        \* what the call returned
    \* ---- the pagination of migrate_table_data (SpecPage) ----
    pk_count,       \* get_table_pk_count: the primary-key columns of the table
    pk_type,        \* columns[pk_index][1], the type of the first of them
    pages,          \* the batches the fetches returned, in order
    modes           \* how the fetches paginated: "pk" (db.py:498), "offset" (db.py:496)

dbVars == <<db_name, dbpc, stage_failed, ntables, tpc, consumed, row_count, start_batch,
            dst_count, checked, check_ok, committed, rolledback, open_pairs>>
sharedVars == <<failed_log, dst_dbs>>
fleetVars == <<fleetpc, all_process_ok, handled, taskpc>>

engineVars == <<engpc, result, src_keys, use_pk, has_long_columns,
                original_batch_size, dst_initial, dst_rows, first_pk, offset,
                batch_size, calculated_batch_size, increment_batch,
                increment_batch_blocks, progress_created, rows, errors, errno,
                reconnected, batch_pos, fail_pos, session, fetched_with,
                elapsed, iterations, throttled, fast_run, boosts>>

mainVars == <<mainpc, arg_skip_dbs, arg_keep_dbs, server_src, existing, src_dbs,
              drop_dbs, dropped, arg_check, ledger0, failed_now, dst_data>>

ledgerVars == <<ledger_pc, seen, adds>>

\* the variables of the specifications of single functions
lockVars == <<db_lock, thr, stmts, collected>>
checkVars == <<checkpc, src_server, dst_server, processed_dbs, check_src_dbs,
               check_dst_dbs, todo, src_sizes, dst_sizes, verdict, named,
               only_source, only_destination>>
valueVars == <<escpc, cell, column_type, escaped>>
pageVars == <<pk_count, pk_type, pages, modes>>
auxVars == <<ledgerVars, lockVars, checkVars, valueVars, pageVars>>

vars == <<dbVars, sharedVars, fleetVars, engineVars, mainVars, auxVars>>

\* what the steps of one specification leave alone
outsideDb == <<fleetVars, engineVars, mainVars, auxVars>>
outsideFleet == <<dbVars, engineVars, mainVars, auxVars>>
outsideEngine == <<dbVars, sharedVars, fleetVars, mainVars, auxVars>>
outsideMain == <<dbVars, engineVars, fleetpc, handled, taskpc, auxVars>>

(***************************************************************************)
(* Bounds of the model and inputs of the run.                              *)
(***************************************************************************)
NumDbs == 2
MaxTables == 2
FleetMaxRows == 1
MaxRows == 11           \* rows of the source table of SpecTable
MaxBatch == 5           \* largest baseline batch size of SpecTable
MaxErrors == 2          \* errors the servers raise during one call of SpecTable
ShortRows == 4          \* rows of the source table of SpecShortTable
MaxKey == 7             \* largest key of SpecPage, in halves
MaxPage == 2            \* largest batch size of SpecPage
MaxIterations == 41     \* iterations of the loop in SpecBatch
MaxDisturbed == 1       \* errors and slow iterations of one run of SpecBatch
NumLedgerDbs == 3       \* database threads of SpecLedger
LockWorkers == 2        \* table threads of each database of SpecLock
MaxStmts == 1           \* statements a table thread of SpecLock executes

DBs == 1..NumDbs
Tables == 1..MaxTables
LedgerDbs == 1..NumLedgerDbs
\* the threads of a database: its table threads, and 0 for the thread of
\* migrate_database_tables itself
Threads == DBs \X (0..LockWorkers)
NoThread == <<0, 0>>

\* args.db_thcount, the size of the outer pool (main.py:174); 2 is the default
\* int(sqrt(os.cpu_count())) of main.py:232 on a machine of 4 to 8 cores.
db_thcount == 2

\* args.table_thcount, the -x/--thread-table option (main.py:250), here -x 1
table_thcount == 1

\* max_workers of the inner pool (db.py:349): the literal 4, not args.table_thcount
TableWorkers == 4

\* The expression main.py:179 passes as migrate_database's batch_size:
\* migrate_database(db, args), the whole Namespace, not args.batch_size.
FleetBatchArg == "args"

\* db.py:496-498 formats batch_size into the LIMIT clause: the statement is
\* valid SQL only when the value is an integer.
LimitClauseValid(arg) == arg = "args.batch_size"

\* db.py:475 computes batch_size // 5 for a table with a long blob column,
\* which is defined only for an integer.
FloorDivDefined(arg) == arg = "args.batch_size"

Range(s) == {s[i] : i \in DOMAIN s}

\* failed.py:5-22: append the name unless a line of the file already holds it
add_failed_database(log, db) == IF db \in Range(log) THEN log ELSE Append(log, db)

\* db.py:1214-1258 remove_database: DROP DATABASE on the destination
remove_database(dbs, db) == dbs \ {db}

\* Python's None, for a database that was not named or is not selected
None == "None"

\* the database whose table a migrate_table_data call copies (db.py:332-333:
\* migrate_database_tables selects db_name on both sides of the pair)
ActiveDb == "db"

\* a pair whose connections are down
NoSession ==
    [up |-> FALSE, autocommit |-> TRUE, src_configured |-> FALSE,
     dst_configured |-> FALSE, src_db |-> None, dst_db |-> None]

\* db.py:905-936 with set_session_vars=True: the configurations of
\* connections.py name no database, a side has the database its USE selects
connect(src_db, dst_db) ==
    [up |-> TRUE, autocommit |-> FALSE, src_configured |-> TRUE,
     dst_configured |-> TRUE, src_db |-> src_db, dst_db |-> dst_db]

\* db.py:870-902: both sides reconnect from their configuration, which names
\* no database; USE runs for the names that were passed only
reconnect_to_db(src_db, dst_db) ==
    [up |-> TRUE, autocommit |-> FALSE, src_configured |-> TRUE,
     dst_configured |-> TRUE, src_db |-> src_db, dst_db |-> dst_db]

(***************************************************************************)
(* Idle values: what each specification gives the variables of the others. *)
(***************************************************************************)
IdleDb ==
    /\ db_name = 0
    /\ dbpc = "idle"
    /\ stage_failed = "none"
    /\ ntables = 0
    /\ tpc = [t \in Tables |-> "none"]
    /\ consumed = {}
    /\ row_count = [t \in Tables |-> 0]
    /\ start_batch = [t \in Tables |-> "none"]
    /\ dst_count = [t \in Tables |-> 0]
    /\ checked = {}
    /\ check_ok = {}
    /\ committed = FALSE
    /\ rolledback = FALSE
    /\ open_pairs = {}

IdleFleet ==
    /\ fleetpc = "idle"
    /\ all_process_ok = TRUE
    /\ handled = {}
    /\ taskpc = [d \in DBs |-> "idle"]

IdleEngine ==
    /\ engpc = "idle"
    /\ result = "none"
    /\ src_keys = {}
    /\ use_pk = FALSE
    /\ has_long_columns = FALSE
    /\ original_batch_size = 0
    /\ dst_initial = {}
    /\ dst_rows = {}
    /\ first_pk = 0
    /\ offset = 0
    /\ batch_size = 0
    /\ calculated_batch_size = 0
    /\ increment_batch = 0
    /\ increment_batch_blocks = 0
    /\ progress_created = FALSE
    /\ rows = {}
    /\ errors = 0
    /\ errno = 0
    /\ reconnected = FALSE
    /\ batch_pos = -1
    /\ fail_pos = -1
    /\ session = NoSession
    /\ fetched_with = 0
    /\ elapsed = 0
    /\ iterations = 0
    /\ throttled = 0
    /\ fast_run = 0
    /\ boosts = 0

IdleMain ==
    /\ mainpc = "idle"
    /\ arg_skip_dbs = FALSE
    /\ arg_keep_dbs = FALSE
    /\ server_src = {}
    /\ existing = {}
    /\ src_dbs = {}
    /\ drop_dbs = {}
    /\ dropped = {}
    /\ arg_check = FALSE
    /\ ledger0 = <<>>
    /\ failed_now = {}
    /\ dst_data = [d \in DBs |-> 0]

IdleLedger ==
    /\ ledger_pc = [d \in LedgerDbs |-> "idle"]
    /\ seen = [d \in LedgerDbs |-> {}]
    /\ adds = [d \in LedgerDbs |-> 0]

IdleLock ==
    /\ db_lock = NoThread
    /\ thr = [th \in Threads |-> "idle"]
    /\ stmts = [th \in Threads |-> 0]
    /\ collected = [d \in DBs |-> {}]

\* an empty row-count map
NoSizes == [k \in {} |-> 0]

\* a server without databases
NoServer == [dbs |-> {}, rows |-> NoSizes]

IdleCheck ==
    /\ checkpc = "idle"
    /\ src_server = NoServer
    /\ dst_server = NoServer
    /\ processed_dbs = {}
    /\ check_src_dbs = {}
    /\ check_dst_dbs = {}
    /\ todo = {}
    /\ src_sizes = NoSizes
    /\ dst_sizes = NoSizes
    /\ verdict = "none"
    /\ named = {}
    /\ only_source = {}
    /\ only_destination = {}

\* A Python value: its type, and by type its characters (str, bytes), its
\* numbers (bool, int, the fields of a temporal or of a Decimal) or its
\* elements (set).
Value(type, text, nums, items) ==
    [type |-> type, text |-> text, nums |-> nums, items |-> items]

NoValue == Value("unset", <<>>, <<>>, {})

IdleValue ==
    /\ escpc = "idle"
    /\ cell = NoValue
    /\ column_type = "unset"
    /\ escaped = NoValue

IdlePage ==
    /\ pk_count = 0
    /\ pk_type = "unset"
    /\ pages = <<>>
    /\ modes = {}

IdleAux == IdleLedger /\ IdleLock /\ IdleCheck /\ IdleValue /\ IdlePage

(***************************************************************************)
(* Spec: migrate_database (db.py:286-313) and migrate_database_tables      *)
(* (db.py:316-385) for one database, as run_migration_threads calls it.    *)
(***************************************************************************)
DbFinished == dbpc \in {"returned", "raised"}

TablesOf == 1..ntables

Completed(t) == tpc[t] \in {"ret_ok", "ret_fail", "raised"}

\* the table tasks that hold a worker of the inner pool
RunningTables == {t \in TablesOf : tpc[t] = "loop"}

\* The call starts in a run whose ledger was cleared (main.py:67) and may
\* already hold siblings that failed; siblings may exist on the destination.
InitDb ==
    /\ db_name \in DBs
    /\ dbpc = "schema"
    /\ stage_failed = "none"
    /\ ntables = 0
    /\ tpc = [t \in Tables |-> "none"]
    /\ consumed = {}
    /\ row_count = [t \in Tables |-> 0]
    /\ start_batch = [t \in Tables |-> "none"]
    /\ dst_count = [t \in Tables |-> 0]
    /\ checked = {}
    /\ check_ok = {}
    /\ committed = FALSE
    /\ rolledback = FALSE
    /\ open_pairs = {}
    /\ \E others \in SUBSET (DBs \ {db_name}) :
         /\ failed_log \in {<<>>} \cup {<<e>> : e \in others}
         /\ dst_dbs = others \ Range(failed_log)
    /\ IdleFleet
    /\ IdleEngine
    /\ IdleMain
    /\ IdleAux

\* an except clause that records and drops the database and goes on to the
\* routines
FailThenRoutines(stage) ==
    /\ stage_failed' = IF stage_failed = "none" THEN stage ELSE stage_failed
    /\ failed_log' = add_failed_database(failed_log, db_name)
    /\ dst_dbs' = remove_database(dst_dbs, db_name)
    /\ dbpc' = "procs"

\* db.py:303-313, the except clause of migrate_database: record the database,
\* drop it on the destination, raise to the caller.
FailDatabase(stage) ==
    /\ stage_failed' = IF stage_failed = "none" THEN stage ELSE stage_failed
    /\ failed_log' = add_failed_database(failed_log, db_name)
    /\ dst_dbs' = remove_database(dst_dbs, db_name)
    /\ dbpc' = "raised"

\* An except clause is reached (db.py:220, 272) or an exception leaves
\* migrate_database_tables (db.py:334-343): close_handlers is not called, so
\* the pair of the unit stays open if connect (db.py:188, 243, 332) had
\* returned it.
LeftOpen(unit) ==
    \E connected \in BOOLEAN :
        open_pairs' = IF connected THEN open_pairs \cup {unit} ELSE open_pairs

\* migrate_database_tables is left (db.py:371 or db.py:385): its futures and
\* the tasks' results are locals and are gone. With drop the destination
\* tables are gone too (DROP DATABASE).
LeaveTables(drop) ==
    /\ tpc' = [t \in Tables |-> "none"]
    /\ consumed' = {}
    /\ checked' = {}
    /\ check_ok' = {}
    /\ row_count' = [t \in Tables |-> 0]
    /\ start_batch' = [t \in Tables |-> "none"]
    /\ dst_count' = IF drop THEN [t \in Tables |-> 0] ELSE dst_count

\* db.py:178-231 migrate_schema, called at db.py:296. On an exception its own
\* except clause records and drops the database and raises (db.py:220-231),
\* and migrate_database's except clause does the same again.
MigrateSchema ==
    /\ dbpc = "schema"
    /\ \E ok \in BOOLEAN :
         IF ok
         THEN \E n \in 0..MaxTables :
                /\ ntables' = n
                /\ dst_dbs' = dst_dbs \cup {db_name}
                /\ dbpc' = "tables"
                /\ UNCHANGED <<stage_failed, failed_log, open_pairs>>
         ELSE /\ FailDatabase("schema")
              /\ LeftOpen("schema")
              /\ UNCHANGED ntables
    /\ UNCHANGED <<db_name, tpc, consumed, row_count, start_batch, dst_count, checked, check_ok,
                   committed, rolledback, outsideDb>>

\* db.py:325-356: no table, return at once; else connect, disable the keys,
\* start the transaction and submit one task per table. A statement that
\* raises here propagates to migrate_database.
TablesBegin ==
    /\ dbpc = "tables"
    /\ IF ntables = 0
       THEN /\ dbpc' = "procs"
            /\ UNCHANGED <<tpc, stage_failed, failed_log, dst_dbs, open_pairs>>
       ELSE \E ok \in BOOLEAN :
              IF ok
              THEN /\ tpc' = [t \in Tables |-> IF t <= ntables THEN "queued" ELSE "none"]
                   /\ dbpc' = "pool"
                   /\ open_pairs' = open_pairs \cup {"tables"}
                   /\ UNCHANGED <<stage_failed, failed_log, dst_dbs>>
              ELSE /\ FailDatabase("tables_begin")
                   /\ LeftOpen("tables")
                   /\ UNCHANGED tpc
    /\ UNCHANGED <<db_name, ntables, consumed, row_count, start_batch, dst_count, checked,
                   check_ok, committed, rolledback, outsideDb>>

\* db.py:349-356: tasks are taken first in first out by at most 4 workers; the
\* pool keeps running queued tasks while the with block waits in shutdown.
TableStartGuard(t) ==
    /\ dbpc \in {"pool", "shutdown"}
    /\ t \in TablesOf
    /\ tpc[t] = "queued"
    /\ \A u \in TablesOf : u < t => tpc[u] # "queued"
    /\ Cardinality(RunningTables) < TableWorkers

\* db.py:439, 473-478: the batch size the loop starts with, for the expression
\* the caller passed as baseline: the value itself, or a fifth of it for a
\* table with a long blob column ("none" when the division raises)
InitialBatch(arg, blob) ==
    IF ~blob THEN arg
    ELSE IF FloorDivDefined(arg) THEN "args.batch_size // 5"
    ELSE "none"

\* db.py:410-481, the setup of migrate_table_data as the fleet runs it. It is
\* outside any try: a statement that fails raises out of the task, and so
\* does batch_size // 5 (db.py:475) on a batch size that is no integer. An
\* empty table returns (True, None) at db.py:422.
TableSetup(t) ==
    /\ TableStartGuard(t)
    /\ \E ok \in BOOLEAN, n \in 0..FleetMaxRows, blob \in BOOLEAN :
         /\ row_count' = [row_count EXCEPT ![t] = IF ok THEN n ELSE @]
         /\ start_batch' = [start_batch EXCEPT ![t] =
                      IF ~ok \/ n = 0 THEN "none"
                      ELSE InitialBatch(FleetBatchArg, blob)]
         /\ tpc' = [tpc EXCEPT ![t] =
                      IF ~ok THEN "raised"
                      ELSE IF n = 0 THEN "ret_ok"
                      ELSE IF blob /\ ~FloorDivDefined(FleetBatchArg) THEN "raised"
                      ELSE "loop"]
    /\ UNCHANGED <<db_name, dbpc, stage_failed, ntables, consumed, dst_count,
                   checked, check_ok, committed, rolledback, sharedVars, open_pairs, outsideDb>>

\* db.py:486-642, the loop of migrate_table_data as the fleet runs it. With a
\* batch size that is no integer the first SELECT is a syntax error (1064),
\* whose handler (db.py:541-545) reads insert_query before it is bound: the
\* task returns (False, error). With an integer the transfer (SpecTable) ends
\* in (True, None) or (False, error).
TableLoop(t) ==
    /\ tpc[t] = "loop"
    /\ IF LimitClauseValid(FleetBatchArg)
       THEN \E ok \in BOOLEAN, n \in 0..row_count[t] :
              /\ dst_count' = [dst_count EXCEPT ![t] = n]
              /\ tpc' = [tpc EXCEPT ![t] = IF ok THEN "ret_ok" ELSE "ret_fail"]
       ELSE /\ tpc' = [tpc EXCEPT ![t] = "ret_fail"]
            /\ UNCHANGED dst_count
    /\ UNCHANGED <<db_name, dbpc, stage_failed, ntables, consumed, row_count, start_batch,
                   checked, check_ok, committed, rolledback, sharedVars, open_pairs, outsideDb>>

\* db.py:981-1023 migration_success: the two counts are equal and no statement
\* of the check failed.
migration_success(t, err) == ~err /\ row_count[t] = dst_count[t]

\* db.py:359: as_completed yields a future as soon as it is done, while the
\* other tasks of the pool are still queued or running.
AsCompletedGuard(t) ==
    /\ dbpc = "pool"
    /\ t \in TablesOf \ consumed
    /\ Completed(t)

\* db.py:359-371, one iteration of the as_completed loop, run by the database's
\* thread. future.result() re-raises what the task raised (no rollback); a
\* (False, ex) result or a failed check rolls back and raises. The raise
\* leaves the with block, which waits for the pool (shutdown).
AsCompleted(t) ==
    /\ AsCompletedGuard(t)
    /\ consumed' = consumed \cup {t}
    /\ \/ /\ tpc[t] = "raised"
          /\ dbpc' = "shutdown"
          /\ stage_failed' = "table_raised"
          /\ UNCHANGED <<checked, check_ok, rolledback>>
       \/ /\ tpc[t] = "ret_fail"
          /\ rolledback' = TRUE
          /\ dbpc' = "shutdown"
          /\ stage_failed' = "table_failed"
          /\ UNCHANGED <<checked, check_ok>>
       \/ /\ tpc[t] = "ret_ok"
          /\ checked' = checked \cup {t}
          /\ \E err \in BOOLEAN :
               IF migration_success(t, err)
               THEN /\ check_ok' = check_ok \cup {t}
                    /\ UNCHANGED <<rolledback, dbpc, stage_failed>>
               ELSE /\ rolledback' = TRUE
                    /\ dbpc' = "shutdown"
                    /\ stage_failed' = "check"
                    /\ UNCHANGED check_ok
    /\ UNCHANGED <<db_name, ntables, tpc, row_count, start_batch, dst_count, committed,
                   sharedVars, open_pairs, outsideDb>>

\* db.py:349 and 371: the with block left by the raise waits for every task of
\* the pool, queued ones included; then the exception reaches migrate_database
\* (db.py:303-313).
PoolShutdown ==
    /\ dbpc = "shutdown"
    /\ \A t \in TablesOf : Completed(t)
    /\ FailDatabase("tables")
    /\ LeaveTables(TRUE)
    /\ UNCHANGED <<db_name, ntables, committed, rolledback, open_pairs, outsideDb>>

\* db.py:373-375: the loop ended without a raise, so process_success is still
\* True: commit.
Commit ==
    /\ dbpc = "pool"
    /\ consumed = TablesOf
    /\ committed' = TRUE
    /\ dbpc' = "committed"
    /\ UNCHANGED <<db_name, stage_failed, ntables, tpc, consumed, row_count, start_batch,
                   dst_count, checked, check_ok, rolledback, sharedVars, open_pairs, outsideDb>>

\* db.py:377-385: re-enable the keys, close the pair, return. A statement
\* failing here, after the commit, raises to migrate_database.
TablesEnd ==
    /\ dbpc = "committed"
    /\ \E ok \in BOOLEAN :
         IF ok
         THEN /\ dbpc' = "procs"
              /\ LeaveTables(FALSE)
              /\ open_pairs' = open_pairs \ {"tables"}
              /\ UNCHANGED <<stage_failed, failed_log, dst_dbs>>
         ELSE /\ FailDatabase("tables_end")
              /\ LeaveTables(TRUE)
              /\ UNCHANGED open_pairs
    /\ UNCHANGED <<db_name, ntables, committed, rolledback, outsideDb>>

\* db.py:234-283 migrate_procedures, called at db.py:302. On an exception it
\* records and drops the database and returns False (db.py:272-283);
\* migrate_database does not use what it returns, so nothing is raised.
MigrateProcedures ==
    /\ dbpc = "procs"
    /\ \E ok \in BOOLEAN :
         IF ok
         THEN /\ dbpc' = "returned"
              /\ UNCHANGED <<stage_failed, failed_log, dst_dbs, dst_count, open_pairs>>
         ELSE /\ stage_failed' = "procs"
              /\ LeftOpen("procs")
              /\ failed_log' = add_failed_database(failed_log, db_name)
              /\ dst_dbs' = remove_database(dst_dbs, db_name)
              /\ dst_count' = [t \in Tables |-> 0]
              /\ dbpc' = "returned"
    /\ UNCHANGED <<db_name, ntables, tpc, consumed, row_count, start_batch, checked, check_ok,
                   committed, rolledback, outsideDb>>

Init == InitDb

Next ==
    \/ MigrateSchema
    \/ TablesBegin
    \/ \E t \in Tables : TableSetup(t)
    \/ \E t \in Tables : TableLoop(t)
    \/ \E t \in Tables : AsCompleted(t)
    \/ PoolShutdown
    \/ Commit
    \/ TablesEnd
    \/ MigrateProcedures

Spec == Init /\ [][Next]_vars

(***************************************************************************)
(* Claims about one database (Spec).                                       *)
(***************************************************************************)
\* the failures of the table stage that C1 names: a transfer that failed
\* (by a returned error or by raising) and a row-count check that did not pass
TableStageFailures == {"table_raised", "table_failed", "check"}

\* C1: the destination transaction is committed only after every table
\* transfer of the database returned success and its row-count check passed;
\* and once a table transfer has failed or a check has mismatched, the
\* transaction has been rolled back and commit is not called.
C1_CommitAllOrNothing ==
    /\ dbpc = "committed" =>
          \A t \in TablesOf : tpc[t] = "ret_ok" /\ t \in check_ok
    /\ stage_failed \in TableStageFailures => rolledback /\ ~committed

\* C2: migration_success runs for a table of the database only after the
\* table-transfer tasks of that database have completed: no count comparison
\* runs while a sibling transfer is still in its fetch and insert loop.
C2_CheckAfterAllTransfers ==
    [][checked' # checked => \A t \in TablesOf : tpc[t] # "loop"]_vars

\* C3: when migrate_database finishes after a failure at any stage, the
\* database is in the failure ledger, it has been dropped on the destination,
\* and the error has been raised to the caller.
C3_FailureRecordedDroppedRaised ==
    (DbFinished /\ stage_failed # "none") =>
        /\ db_name \in Range(failed_log)
        /\ db_name \notin dst_dbs
        /\ dbpc = "raised"

\* C15: within a database at most table_thcount table transfers are running
\* (the inner pool has the size given by -x/--thread-table).
C15_TableTransfersBounded ==
    Cardinality(RunningTables) <= table_thcount

\* C18: every connection pair opened for a migration unit (schema, tables,
\* procedures) has been closed when the unit ends, on success and on every
\* failure path.
C18_PairsClosed ==
    DbFinished => open_pairs = {}

\* C22: every table transfer the fleet launches starts its loop with a batch
\* size derived from the integer given with -b: args.batch_size itself, or
\* args.batch_size // 5 for a table with a large-binary-object column.
C22_BatchFromBaseline ==
    \A t \in Tables :
        tpc[t] = "loop" =>
            start_batch[t] \in {"args.batch_size", "args.batch_size // 5"}

(***************************************************************************)
(* SpecFleet: run_migration_threads (main.py:164-191). Every database of   *)
(* src_dbs is one migrate_database task of the outer pool; a task goes     *)
(* through the stages of db.py:294-302, each of which succeeds or fails as *)
(* in Spec.                                                                *)
(***************************************************************************)
TaskFinished(d) == taskpc[d] \in {"returned", "raised"}

\* the tasks that hold a worker of the outer pool
RunningTasks == {d \in DBs : taskpc[d] \in {"schema", "tables", "procs"}}

\* main.py:122-148: the ledger was cleared (main.py:67) and the destination
\* databases were dropped (main.py:131) before the threads are launched;
\* main.py:178-179 submits every database.
InitFleet ==
    /\ fleetpc = "running"
    /\ all_process_ok = TRUE
    /\ handled = {}
    /\ taskpc = [d \in DBs |-> "queued"]
    /\ failed_log = <<>>
    /\ dst_dbs = {}
    /\ IdleDb
    /\ IdleEngine
    /\ IdleMain
    /\ IdleAux

\* The fail-fast pool a bug would give: no task is taken once a failure was seen.
DbStartGuardFailFast(d) ==
    /\ taskpc[d] = "queued"
    /\ \A e \in DBs : e < d => taskpc[e] # "queued"
    /\ Cardinality(RunningTasks) < db_thcount
    /\ all_process_ok

\* main.py:174-179: the pool's queue is first in first out, and a queued task
\* is taken as soon as one of the db_thcount workers is free, whatever the
\* other tasks returned or raised.
DbStartGuard(d) ==
    /\ taskpc[d] = "queued"
    /\ \A e \in DBs : e < d => taskpc[e] # "queued"
    /\ Cardinality(RunningTasks) < db_thcount

TaskStart(d) ==
    /\ fleetpc \in {"running", "interrupted"}
    /\ DbStartGuard(d)
    /\ taskpc' = [taskpc EXCEPT ![d] = "schema"]
    /\ UNCHANGED <<fleetpc, all_process_ok, handled, sharedVars, outsideFleet>>

\* db.py:303-313 for the task of database d
TaskFail(d) ==
    /\ failed_log' = add_failed_database(failed_log, d)
    /\ dst_dbs' = remove_database(dst_dbs, d)
    /\ taskpc' = [taskpc EXCEPT ![d] = "raised"]

\* db.py:296 migrate_schema (MigrateSchema of Spec)
TaskSchema(d) ==
    /\ taskpc[d] = "schema"
    /\ \E ok \in BOOLEAN :
         IF ok
         THEN /\ dst_dbs' = dst_dbs \cup {d}
              /\ taskpc' = [taskpc EXCEPT ![d] = "tables"]
              /\ UNCHANGED failed_log
         ELSE TaskFail(d)
    /\ UNCHANGED <<fleetpc, all_process_ok, handled, outsideFleet>>

\* db.py:299 migrate_database_tables (TablesBegin to TablesEnd or PoolShutdown
\* of Spec): it returns, or it raises into the except clause of db.py:303.
TaskTables(d) ==
    /\ taskpc[d] = "tables"
    /\ \E ok \in BOOLEAN :
         IF ok
         THEN /\ taskpc' = [taskpc EXCEPT ![d] = "procs"]
              /\ UNCHANGED <<failed_log, dst_dbs>>
         ELSE TaskFail(d)
    /\ UNCHANGED <<fleetpc, all_process_ok, handled, outsideFleet>>

\* db.py:302 migrate_procedures (MigrateProcedures of Spec): a failure is
\* recorded, the database dropped, and the task returns normally.
TaskProcedures(d) ==
    /\ taskpc[d] = "procs"
    /\ \E ok \in BOOLEAN :
         IF ok
         THEN UNCHANGED <<failed_log, dst_dbs>>
         ELSE /\ failed_log' = add_failed_database(failed_log, d)
              /\ dst_dbs' = remove_database(dst_dbs, d)
    /\ taskpc' = [taskpc EXCEPT ![d] = "returned"]
    /\ UNCHANGED <<fleetpc, all_process_ok, handled, outsideFleet>>

\* main.py:182-189, one iteration of the as_completed loop: future.result()
\* re-raises what the task raised, and the except clause clears the flag.
FleetCollect(d) ==
    /\ fleetpc = "running"
    /\ d \notin handled
    /\ TaskFinished(d)
    /\ handled' = handled \cup {d}
    /\ all_process_ok' = IF taskpc[d] = "raised" THEN FALSE ELSE all_process_ok
    /\ UNCHANGED <<fleetpc, taskpc, sharedVars, outsideFleet>>

\* main.py:191
FleetReturn ==
    /\ fleetpc = "running"
    /\ handled = DBs
    /\ fleetpc' = "returned"
    /\ UNCHANGED <<all_process_ok, handled, taskpc, sharedVars, outsideFleet>>

\* main.py:209-220, 272: SIGINT while the main thread waits in the loop of
\* main.py:182. The handler runs in the main thread and calls exit(0): the
\* SystemExit it raises is no Exception (main.py:185), so it leaves the loop
\* and reaches the end of the with block of main.py:174, where the executor
\* shuts down waiting for its workers. Nothing tells the workers to stop.
Interrupt ==
    /\ fleetpc = "running"
    /\ fleetpc' = "interrupted"
    /\ UNCHANGED <<all_process_ok, handled, taskpc, sharedVars, outsideFleet>>

\* main.py:174: the shutdown of the executor returns once every task it was
\* given, queued ones included, has run; then SystemExit ends the process.
InterruptExit ==
    /\ fleetpc = "interrupted"
    /\ \A d \in DBs : TaskFinished(d)
    /\ fleetpc' = "exited"
    /\ UNCHANGED <<all_process_ok, handled, taskpc, sharedVars, outsideFleet>>

NextFleet ==
    \/ \E d \in DBs : TaskStart(d)
    \/ \E d \in DBs : TaskSchema(d)
    \/ \E d \in DBs : TaskTables(d)
    \/ \E d \in DBs : TaskProcedures(d)
    \/ \E d \in DBs : FleetCollect(d)
    \/ FleetReturn
    \/ Interrupt
    \/ InterruptExit

SpecFleet == InitFleet /\ [][NextFleet]_vars

\* The worker threads and the main thread are scheduled by the operating
\* system: a step that stays possible is eventually taken.
SpecFleetFair == SpecFleet /\ WF_vars(NextFleet)

(***************************************************************************)
(* Claims about the fleet (SpecFleet, SpecFleetFair).                      *)
(***************************************************************************)
\* C4: the flag run_migration_threads returns is true exactly when no
\* database suffered a fatal failure, that is when no database was added to
\* the failure ledger during the run.
C4_FlagIffNoLedgerEntry ==
    fleetpc = "returned" => (all_process_ok <=> failed_log = <<>>)

\* C5: for every database of the list, its migrate_database task is
\* eventually started and finished, whatever the other tasks return or raise.
C5_EveryDatabaseFinishes ==
    \A d \in DBs : <>TaskFinished(d)

\* C5 witness: the run has returned with one task that raised and a task
\* later in the queue that finished all the same.
C5_Witness ==
    /\ fleetpc = "returned"
    /\ \E d, e \in DBs : d < e /\ taskpc[d] = "raised" /\ TaskFinished(e)

\* C25: after an external interrupt (SIGINT) no queued database or table task
\* is started and no destination transaction is committed: a database task
\* that was queued stays queued, and no table stage completes with its commit.
C25_InterruptStopsNewWork ==
    [][fleetpc = "interrupted" =>
          \A d \in DBs :
              /\ taskpc[d] = "queued" => taskpc'[d] = "queued"
              /\ ~(taskpc[d] = "tables" /\ taskpc'[d] = "procs")]_vars

(***************************************************************************)
(* SpecTable: one call of migrate_table_data (db.py:388-642) with an       *)
(* integer baseline, as migrate_grants (db.py:740-769) makes it. The       *)
(* source table is not modified during the call. A batch insert that       *)
(* fails inserts no row.                                                   *)
(***************************************************************************)
boost == 2048           \* db.py:481
BoostPeriod == 10       \* db.py:535
LongColumnDivisor == 5  \* db.py:475
LostDivisor == 8        \* db.py:553
SlowSeconds == 2        \* db.py:599
VerySlowSeconds == 4    \* db.py:580
BoostCap == 6           \* db.py:537

Max(a, b) == IF a >= b THEN a ELSE b
Min(a, b) == IF a <= b THEN a ELSE b
MinOf(S) == CHOOSE k \in S : \A j \in S : k <= j
MaxOf(S) == CHOOSE k \in S : \A j \in S : k >= j

\* number of rows of S that sort before key k
Rank(S, k) == Cardinality({j \in S : j < k})

\* db.py:496: SELECT * FROM t LIMIT n OFFSET off
OffsetPage(S, off, n) == {k \in S : off <= Rank(S, k) /\ Rank(S, k) < off + n}

\* db.py:498: SELECT * FROM t WHERE pk >= first ORDER BY pk ASC LIMIT n
PkPage(S, first, n) == OffsetPage({k \in S : k >= first}, 0, n)

\* the position the next fetch starts at
Position == IF use_pk THEN first_pk ELSE offset

\* the source tables and the baselines the call is given
SourceTables == {1..n : n \in 0..MaxRows}
BatchSizes == 1..MaxBatch
\* later - now (db.py:571-573) in milliseconds
Differences == {1000, 2004, 3000, 4004, 5000}

\* db.py:575 round(later - now, 2), in hundredths of a second (no value of
\* Differences lies half way between two hundredths)
round(ms, ndigits) == (ms + 5) \div 10

\* db.py:575
difference == round(elapsed, 2)

InitTable ==
    /\ engpc = "setup"
    /\ result = "none"
    /\ src_keys \in SourceTables
    /\ use_pk \in BOOLEAN
    /\ has_long_columns \in BOOLEAN
    /\ original_batch_size \in BatchSizes
    /\ dst_initial \in {{}, {1}}
    /\ dst_rows = dst_initial
    /\ first_pk = 0
    /\ offset = 0
    /\ batch_size = 0
    /\ calculated_batch_size = 0
    /\ increment_batch = 0
    /\ increment_batch_blocks = 0
    /\ progress_created = FALSE
    /\ rows = {}
    /\ errors = 0
    /\ errno = 0
    /\ reconnected = FALSE
    /\ batch_pos = -1
    /\ fail_pos = -1
    /\ session = connect(ActiveDb, ActiveDb)
    /\ fetched_with = 0
    /\ elapsed = 0
    /\ iterations = 0
    /\ throttled = 0
    /\ fast_run = 0
    /\ boosts = 0
    /\ IdleDb
    /\ IdleFleet
    /\ IdleMain
    /\ failed_log = <<>>
    /\ dst_dbs = {}
    /\ IdleAux

\* the servers raise an error only while the budget lasts
MayFail == errors < MaxErrors

Return(r) ==
    /\ result' = r
    /\ engpc' = "done"

\* db.py:439, 473-475: the batch size the loop starts with
InitialSize(baseline, blob) ==
    IF blob THEN baseline \div LongColumnDivisor ELSE baseline

\* db.py:410-484. The statements run outside any try: an error of a setup
\* query reaches the caller.
TableDataSetup ==
    /\ engpc = "setup"
    /\ \E ok \in (IF MayFail THEN BOOLEAN ELSE {TRUE}) :
         IF ~ok
         THEN /\ Return("raised")
              /\ errors' = errors + 1
              /\ UNCHANGED <<first_pk, batch_size, calculated_batch_size>>
         ELSE /\ errors' = errors
              /\ IF src_keys = {}
                 THEN /\ Return("ok")
                      /\ UNCHANGED <<first_pk, batch_size, calculated_batch_size>>
                 ELSE /\ first_pk' = IF use_pk THEN MinOf(src_keys) ELSE 0
                      /\ batch_size' = InitialSize(original_batch_size, has_long_columns)
                      /\ calculated_batch_size' = batch_size'
                      /\ engpc' = "fetch"
                      /\ result' = result
    /\ UNCHANGED <<src_keys, use_pk, has_long_columns, original_batch_size,
                   dst_initial, dst_rows, offset, increment_batch,
                   increment_batch_blocks, progress_created, rows, errno,
                   reconnected, batch_pos, fail_pos, session, fetched_with,
                   elapsed, iterations, throttled, fast_run, boosts, outsideEngine>>

\* what a statement sent to a server does: it succeeds or raises one of errs
Outcomes(errs) == IF MayFail THEN {"ok"} \cup errs ELSE {"ok"}

\* db.py:563-566: an error the loop does not handle ends the call
Unhandled ==
    /\ errno' = 1205
    /\ errors' = errors + 1
    /\ Return("fail")
    /\ UNCHANGED <<reconnected, batch_size, fail_pos, session, fast_run>>

\* db.py:521-529, 563-566: the INSERT names the table without its database, so
\* on a destination session with no database selected the server refuses it
\* (1046), which the loop does not handle
NoDatabaseSelected ==
    /\ errno' = 1046
    /\ Return("fail")
    /\ UNCHANGED <<errors, reconnected, batch_size, fail_pos, session, fast_run>>

\* db.py:547-562, errno 2013 on the batch fetched at position pos: reconnect,
\* shrink the batch, report on the progress bar, repeat the loop. progress is
\* bound by db.py:510 only: before that, db.py:557 raises UnboundLocalError
\* into the except clause of db.py:561.
ConnectionLost(pos) ==
    /\ errno' = 2013
    /\ errors' = errors + 1
    /\ fast_run' = 0
    /\ \E ok \in BOOLEAN :
         /\ reconnected' = ok
         /\ session' = IF ok THEN reconnect_to_db(ActiveDb, None) ELSE NoSession
         /\ IF ~ok
            THEN /\ Return("fail")
                 /\ UNCHANGED <<batch_size, fail_pos>>
            ELSE /\ batch_size' = Max(1, batch_size \div LostDivisor)
                 /\ IF ~progress_created
                    THEN /\ Return("fail")
                         /\ UNCHANGED fail_pos
                    ELSE /\ engpc' = "fetch"
                         /\ result' = result
                         /\ fail_pos' = pos

\* db.py:488-515, 638-642: the SELECT of one batch. An empty batch leaves the
\* loop for close_pbar(progress), which raises UnboundLocalError when no
\* batch was fetched before.
Fetch ==
    /\ engpc = "fetch"
    /\ \E outcome \in Outcomes({"2013", "other"}) :
         CASE outcome = "ok" ->
                LET page == IF use_pk
                            THEN PkPage(src_keys, first_pk, batch_size)
                            ELSE OffsetPage(src_keys, offset, batch_size)
                IN  /\ rows' = page
                    /\ batch_pos' = Position
                    /\ fail_pos' = -1
                    /\ IF page = {}
                       THEN /\ Return(IF progress_created THEN "ok" ELSE "raised")
                            /\ UNCHANGED <<progress_created, first_pk>>
                       ELSE /\ progress_created' = TRUE
                            /\ first_pk' = IF use_pk THEN MaxOf(page) + 1 ELSE first_pk
                            /\ engpc' = "insert"
                            /\ result' = result
                    /\ fetched_with' = batch_size
                    /\ UNCHANGED <<errors, errno, reconnected, batch_size, session,
                                   fast_run>>
           [] outcome = "2013" ->
                /\ ConnectionLost(Position)
                /\ UNCHANGED <<rows, batch_pos, progress_created, first_pk, fetched_with>>
           [] outcome = "other" ->
                /\ Unhandled
                /\ UNCHANGED <<rows, batch_pos, progress_created, first_pk, fetched_with>>
    /\ UNCHANGED <<src_keys, use_pk, has_long_columns, original_batch_size,
                   dst_initial, dst_rows, offset, calculated_batch_size,
                   increment_batch, increment_batch_blocks, elapsed, iterations,
                   throttled, boosts, outsideEngine>>

\* the boost adding to the current batch size instead of the baseline
BoostedFromCurrent ==
    IF increment_batch + 1 = BoostPeriod
    THEN /\ increment_batch_blocks' = increment_batch_blocks + 1
         /\ batch_size' = Min(batch_size + increment_batch_blocks' * boost,
                              batch_size * BoostCap)
         /\ increment_batch' = 0
         /\ boosts' = boosts + 1
    ELSE /\ increment_batch' = increment_batch + 1
         /\ UNCHANGED <<increment_batch_blocks, batch_size, boosts>>

\* db.py:532-538: count the batch, and every BoostPeriod batches grow the batch
Boosted ==
    IF increment_batch + 1 = BoostPeriod
    THEN /\ increment_batch_blocks' = increment_batch_blocks + 1
         /\ batch_size' = Min(calculated_batch_size + increment_batch_blocks' * boost,
                              batch_size * BoostCap)
         /\ increment_batch' = 0
         /\ boosts' = boosts + 1
    ELSE /\ increment_batch' = increment_batch + 1
         /\ UNCHANGED <<increment_batch_blocks, batch_size, boosts>>

\* on_error_insert_single giving up at the first duplicate
StopsAtDuplicate(bad) ==
    /\ dst_rows' = dst_rows \cup {k \in rows : \A j \in rows \cap dst_rows : k < j}
    /\ IF bad = 0
       THEN /\ engpc' = "post"
            /\ result' = result
       ELSE Return("fail")

\* db.py:704-737 on_error_insert_single: the rows one by one, a duplicate
\* (1062) is skipped, any other error (on row bad) is raised; bad = 0 when no
\* row raises.
InsertSingle(bad) ==
    /\ dst_rows' = dst_rows \cup {k \in rows : bad = 0 \/ k < bad}
    /\ IF bad = 0
       THEN /\ engpc' = "post"
            /\ result' = result
       ELSE Return("fail")

\* db.py:517-545: the INSERT of the batch
Insert ==
    /\ engpc = "insert"
    /\ \E outcome \in (IF session.dst_db = None THEN {"1046"}
                       ELSE IF rows \cap dst_rows # {} THEN {"1062"}
                       ELSE Outcomes({"2013", "1064", "other"})) :
         CASE outcome = "ok" ->
                /\ dst_rows' = dst_rows \cup rows
                /\ Boosted
                /\ engpc' = "post"
                /\ result' = result
                /\ UNCHANGED <<errors, errno, reconnected, fail_pos, session, fast_run>>
           [] outcome \in {"1062", "1064"} ->
                /\ errno' = IF outcome = "1062" THEN 1062 ELSE 1064
                /\ \E bad \in {0} \cup (IF errors + (IF outcome = "1064" THEN 1 ELSE 0) < MaxErrors
                                       THEN rows \ dst_rows ELSE {}) :
                     /\ InsertSingle(bad)
                     /\ errors' = errors + (IF outcome = "1064" THEN 1 ELSE 0)
                                         + (IF bad # 0 THEN 1 ELSE 0)
                /\ fast_run' = -1
                /\ UNCHANGED <<reconnected, fail_pos, batch_size, increment_batch,
                               increment_batch_blocks, session, boosts>>
           [] outcome = "2013" ->
                /\ ConnectionLost(batch_pos)
                /\ UNCHANGED <<dst_rows, increment_batch, increment_batch_blocks, boosts>>
           [] outcome = "other" ->
                /\ Unhandled
                /\ UNCHANGED <<dst_rows, increment_batch, increment_batch_blocks, boosts>>
           [] outcome = "1046" ->
                /\ NoDatabaseSelected
                /\ UNCHANGED <<dst_rows, increment_batch, increment_batch_blocks, boosts>>
    /\ UNCHANGED <<src_keys, use_pk, has_long_columns, original_batch_size,
                   dst_initial, first_pk, offset, calculated_batch_size,
                   progress_created, rows, batch_pos, fetched_with, elapsed,
                   iterations, throttled, outsideEngine>>

\* Throttle with a mild branch that halves the batch and leaves the counters
MildKeepsCounters(ms) ==
    /\ elapsed' = ms
    /\ iterations' = iterations + 1
    /\ IF difference' > VerySlowSeconds * 100
       THEN /\ batch_size' = Max(1, batch_size \div 2)
            /\ increment_batch' = 0
            /\ increment_batch_blocks' = 0
            /\ boosts' = 0
            /\ fast_run' = 0
            /\ throttled' = throttled + 1
       ELSE IF difference' > SlowSeconds * 100
       THEN /\ batch_size' = Max(1, batch_size \div 2)
            /\ fast_run' = 0
            /\ throttled' = throttled + 1
            /\ UNCHANGED <<increment_batch, increment_batch_blocks, boosts>>
       ELSE /\ fast_run' = fast_run + 1
            /\ UNCHANGED <<batch_size, increment_batch, increment_batch_blocks, boosts,
                           throttled>>

\* Throttle with a heavy branch that halves the batch and leaves the counters
HeavyKeepsCounters(ms) ==
    /\ elapsed' = ms
    /\ iterations' = iterations + 1
    /\ IF difference' > SlowSeconds * 100
       THEN /\ IF difference' > VerySlowSeconds * 100
               THEN UNCHANGED <<increment_batch, increment_batch_blocks>>
               ELSE /\ increment_batch' = Max(0, increment_batch - 1)
                    /\ increment_batch_blocks' = Max(0, increment_batch_blocks - 1)
            /\ batch_size' = Max(1, batch_size \div 2)
            /\ fast_run' = 0
            /\ throttled' = throttled + 1
            /\ boosts' = boosts
       ELSE /\ fast_run' = fast_run + 1
            /\ UNCHANGED <<batch_size, increment_batch, increment_batch_blocks, boosts,
                           throttled>>

\* db.py:571-610: the iteration took ms milliseconds, rounded: over 4 halve the batch, reset
\* the counters and sleep; over 2 halve the batch and step the counters back;
\* else leave them. The iteration counts as fast when its bulk INSERT raised
\* nothing (fast_run was not reset since the fetch) and it was not throttled.
Throttle(ms) ==
    /\ elapsed' = ms
    /\ iterations' = iterations + 1
    /\ IF difference' > VerySlowSeconds * 100
       THEN /\ batch_size' = Max(1, batch_size \div 2)
            /\ increment_batch' = 0
            /\ increment_batch_blocks' = 0
            /\ boosts' = 0
            /\ fast_run' = 0
            /\ throttled' = throttled + 1
       ELSE IF difference' > SlowSeconds * 100
       THEN /\ increment_batch' = Max(0, increment_batch - 1)
            /\ increment_batch_blocks' = Max(0, increment_batch_blocks - 1)
            /\ batch_size' = Max(1, batch_size \div 2)
            /\ fast_run' = 0
            /\ throttled' = throttled + 1
            /\ boosts' = boosts
       ELSE /\ fast_run' = fast_run + 1
            /\ UNCHANGED <<batch_size, increment_batch, increment_batch_blocks, boosts,
                           throttled>>

\* an end of the iteration that leaves the offset and the batch state alone
AfterBatchStays ==
    /\ engpc = "post"
    /\ IF offset >= Cardinality(src_keys)
       THEN Return("ok")
       ELSE /\ engpc' = "fetch"
            /\ result' = result
    /\ UNCHANGED <<src_keys, use_pk, has_long_columns, original_batch_size,
                   dst_initial, dst_rows, first_pk, calculated_batch_size,
                   progress_created, rows, errors, errno, reconnected, batch_pos,
                   fail_pos, session, fetched_with, offset, elapsed, iterations,
                   batch_size, increment_batch, increment_batch_blocks, boosts,
                   fast_run, throttled, outsideEngine>>

\* db.py:568-642: advance the offset, throttle on the time the batch took,
\* leave the loop when the offset has reached row_count.
AfterBatch ==
    /\ engpc = "post"
    /\ offset' = offset + Cardinality(rows)
    /\ \E ms \in Differences : Throttle(ms)
    /\ IF offset' >= Cardinality(src_keys)
       THEN Return("ok")
       ELSE /\ engpc' = "fetch"
            /\ result' = result
    /\ UNCHANGED <<src_keys, use_pk, has_long_columns, original_batch_size,
                   dst_initial, dst_rows, first_pk, calculated_batch_size,
                   progress_created, rows, errors, errno, reconnected, batch_pos,
                   fail_pos, session, fetched_with, outsideEngine>>

NextTable == TableDataSetup \/ Fetch \/ Insert \/ AfterBatch

SpecTable == InitTable /\ [][NextTable]_vars

(***************************************************************************)
(* Claims about migrate_table_data (SpecTable).                            *)
(***************************************************************************)
\* C6: when the call returns success for an unmodified source table and a
\* destination table that started empty, every source row is in the
\* destination, in both pagination modes and after any recovered errors.
C6_SuccessMeansAllRowsCopied ==
    (result = "ok" /\ dst_initial = {}) => dst_rows = src_keys

\* C7: the call never raises to its caller: it ends in (True, None) or in
\* (False, error).
C7_NeverRaises ==
    engpc = "done" => result \in {"ok", "fail"}

\* C8: after a connection-lost error (2013) on the fetch or the insert of a
\* batch and a successful reconnect, the next fetch starts at the position
\* (offset or PK cursor) of the failed batch.
C8_RetrySamePosition ==
    (engpc = "fetch" /\ fail_pos # -1) => Position = fail_pos

\* C9: a connection-lost error (2013) on any fetch or insert, the very first
\* fetch included, ends the call in failure only if the reconnect failed.
C9_LostConnectionRecoverable ==
    (result = "fail" /\ errno = 2013) => ~reconnected

\* C19: a reconnect during a table transfer follows a connection-lost error
\* (2013) only, and a reconnect that succeeded leaves both sides up, the
\* destination in manual-commit mode, the session configuration applied on
\* both sides, and the database that was active before selected again on the
\* source side and on the destination side.
C19_ReconnectRestoresSession ==
    reconnected => session = connect(ActiveDb, ActiveDb)

(***************************************************************************)
(* SpecMain: migration_process (main.py:44-161). The database lists are    *)
(* kept as sets; run_migration_threads is the summary of SpecFleet.        *)
(***************************************************************************)
\* the ledgers a previous run can have left: no entry is repeated (failed.py:17)
Ledgers == {<<>>} \cup {<<d>> : d \in DBs}
                  \cup ({<<d, e>> : d, e \in DBs} \ {<<d, d>> : d \in DBs})

\* the sequences that list every element of S once
Orderings(S) == {s \in [1..Cardinality(S) -> S] : Range(s) = S}

InitMain ==
    /\ mainpc = "start"
    /\ arg_skip_dbs \in BOOLEAN
    /\ arg_keep_dbs \in BOOLEAN
    /\ arg_check \in BOOLEAN
    /\ server_src \in SUBSET DBs
    /\ existing \in SUBSET DBs
    /\ dst_dbs = existing
    /\ dst_data \in [DBs -> 0..FleetMaxRows]
    /\ \A d \in DBs \ existing : dst_data[d] = 0
    /\ failed_log \in Ledgers
    /\ ledger0 = failed_log
    /\ failed_now = {}
    /\ src_dbs = {}
    /\ drop_dbs = {}
    /\ dropped = {}
    /\ all_process_ok = TRUE
    /\ fleetpc = "idle"
    /\ handled = {}
    /\ taskpc = [d \in DBs |-> "idle"]
    /\ IdleDb
    /\ IdleEngine
    /\ IdleAux

\* A run that migrates whatever the flag: what main.py:275 would be without its test.
RunsMigrationAlways == TRUE

\* main.py:275: migration_process runs unless --check-only was given
RunsMigration == ~arg_check

\* A filter that keeps every database, ledger or not.
LedgerFilterNone(dbs, failed) == dbs

\* main.py:70-72: when the ledger names databases, keep only those
LedgerFilter(dbs, failed) == IF failed # {} THEN dbs \cap failed ELSE dbs

\* A skip that skips nothing.
SkipNothing(src, dst) == src

\* main.py:76: with --skip-existing-dbs, the source databases not on the destination
SkipExisting(src, dst) == src \ dst

\* main.py:60-78: read the servers and the ledger, clear the ledger, keep the
\* databases of the ledger when it has any, apply --skip-existing-dbs.
ResolveDatabases ==
    /\ mainpc = "start"
    /\ RunsMigration
    /\ LET failed_dbs == Range(failed_log)
           src1 == LedgerFilter(server_src, failed_dbs)
           dst1 == LedgerFilter(dst_dbs, failed_dbs)
       IN  /\ src_dbs' = IF arg_skip_dbs THEN SkipExisting(src1, dst1) ELSE src1
           /\ drop_dbs' = IF arg_skip_dbs THEN src_dbs' ELSE dst1
    /\ failed_log' = <<>>
    /\ mainpc' = "resolved"
    /\ UNCHANGED <<arg_skip_dbs, arg_keep_dbs, arg_check, server_src, existing,
                   dropped, ledger0, failed_now, dst_data, dst_dbs,
                   all_process_ok, outsideMain>>

\* db.py:1224-1258 remove_databases for the databases of done
DroppedData(done) == [d \in DBs |-> IF d \in done THEN 0 ELSE dst_data[d]]

\* main.py:122-136, 157-158: nothing to migrate ends the call; otherwise the
\* databases of the local dst_dbs are dropped, and a failed drop ends the call.
DropDatabases ==
    /\ mainpc = "resolved"
    /\ IF src_dbs = {}
       THEN /\ mainpc' = "returned"
            /\ UNCHANGED <<dst_dbs, dropped, dst_data>>
       ELSE IF drop_dbs = {}
       THEN /\ mainpc' = "launch"
            /\ UNCHANGED <<dst_dbs, dropped, dst_data>>
       ELSE \E removed \in BOOLEAN :
              IF removed
              THEN /\ dst_dbs' = dst_dbs \ drop_dbs
                   /\ dropped' = dst_dbs \cap drop_dbs
                   /\ dst_data' = DroppedData(drop_dbs)
                   /\ mainpc' = "launch"
              ELSE \E done \in SUBSET drop_dbs :
                     /\ done # drop_dbs
                     /\ dst_dbs' = dst_dbs \ done
                     /\ dropped' = dst_dbs \cap done
                     /\ dst_data' = DroppedData(done)
                     /\ mainpc' = "returned"
    /\ UNCHANGED <<arg_skip_dbs, arg_keep_dbs, arg_check, server_src, existing,
                   src_dbs, drop_dbs, ledger0, failed_now, failed_log,
                   all_process_ok, outsideMain>>

\* main.py:148 run_migration_threads(src_dbs, ...), in one step: the databases
\* of bad fail and are dropped (db.py:303-313), those of quiet in
\* migrate_procedures only (SpecFleet); the others hold the rows of the source.
RunMigrationThreads ==
    /\ mainpc = "launch"
    /\ \E bad \in SUBSET src_dbs :
         \E quiet \in SUBSET bad :
           /\ dst_dbs' = (dst_dbs \cup src_dbs) \ bad
           /\ failed_log' \in Orderings(bad)
           /\ failed_now' = bad
           /\ all_process_ok' = (bad = quiet)
           /\ \E copied \in [DBs -> 0..FleetMaxRows] :
                dst_data' = [d \in DBs |-> IF d \in bad THEN 0
                                           ELSE IF d \in src_dbs THEN copied[d]
                                           ELSE dst_data[d]]
    /\ mainpc' = "returned"
    /\ UNCHANGED <<arg_skip_dbs, arg_keep_dbs, arg_check, server_src, existing,
                   src_dbs, drop_dbs, dropped, ledger0, outsideMain>>

\* main.py:274-283, db.py:1069-1181: the verification pass, after the migration
\* or alone with --check-only. It reads the ledger and counts the rows of
\* both servers (SpecCheck).
CheckProcess ==
    /\ \/ mainpc = "start" /\ ~RunsMigration
       \/ mainpc = "returned"
    /\ mainpc' = "checked"
    /\ UNCHANGED <<arg_skip_dbs, arg_keep_dbs, arg_check, server_src, existing,
                   src_dbs, drop_dbs, dropped, ledger0, failed_now, dst_data,
                   sharedVars, all_process_ok, outsideMain>>

NextMain == ResolveDatabases \/ DropDatabases \/ RunMigrationThreads \/ CheckProcess

SpecMain == InitMain /\ [][NextMain]_vars

(***************************************************************************)
(* Claims about migration_process (SpecMain).                              *)
(***************************************************************************)
\* C10: in a run started with --keep-existing-dbs no database that existed on
\* the destination is dropped before the migration starts.
C10_KeepExistingDropsNothing ==
    arg_keep_dbs => dropped = {}

\* C11: a run with --check-only mutates nothing: no destination database is
\* created, dropped or written, and the failure ledger is neither cleared nor
\* appended.
C11_CheckOnlyMutatesNothing ==
    [][arg_check => /\ dst_dbs' = dst_dbs
                    /\ dst_data' = dst_data
                    /\ dropped' = dropped
                    /\ failed_log' = failed_log]_vars

\* C11 witness: a check-only run has finished on a destination that holds
\* databases, with a ledger left by an earlier run.
C11_Witness ==
    /\ arg_check
    /\ mainpc = "checked"
    /\ existing # {}
    /\ failed_log # <<>>

\* C12: with --skip-existing-dbs a database that exists on the destination is
\* neither dropped nor migrated, and its rows are left as they were; when
\* every source database is on the destination nothing is migrated.
C12_SkipExistingLeavesThemAlone ==
    /\ [](arg_skip_dbs => src_dbs \cap existing = {} /\ dropped = {})
    /\ [][arg_skip_dbs => \A d \in existing : d \in dst_dbs' /\ dst_data'[d] = dst_data[d]]_vars

\* C12 witness: a run with the flag has returned, every source database was
\* already on the destination with rows in it.
C12_Witness ==
    /\ arg_skip_dbs
    /\ mainpc = "returned"
    /\ server_src # {}
    /\ server_src \subseteq existing
    /\ \E d \in server_src : dst_data[d] > 0

\* C13: when a ledger exists at the start of a migration run, only databases
\* it names are migrated or dropped; the ledger is cleared before any
\* database is processed, and at the end it lists exactly the databases that
\* failed in this run.
C13_LedgerRestrictsAndIsRenewed ==
    /\ ledger0 # <<>> => src_dbs \subseteq Range(ledger0) /\ dropped \subseteq Range(ledger0)
    /\ mainpc \in {"resolved", "launch"} => failed_log = <<>>
    /\ (mainpc \in {"returned", "checked"} /\ ~arg_check) => Range(failed_log) = failed_now

\* C13 witness: a run that started from a ledger has returned with a ledger
\* of its own failures, which is not the one it found.
C13_Witness ==
    /\ ledger0 # <<>>
    /\ mainpc = "returned"
    /\ failed_now # {}
    /\ Range(failed_log) # Range(ledger0)
    /\ dropped # {}

(***************************************************************************)
(* SpecLedger: add_failed_database (failed.py:5-22) as the database        *)
(* threads of one run call it. A thread adds its own database, up to       *)
(* AddsPerTask times (db.py:225 or db.py:277, then db.py:307); reading the *)
(* file and appending to it are two steps.                                 *)
(***************************************************************************)
AddsPerTask == 2        \* db.py:225 and db.py:307

outsideLedger == <<dbVars, dst_dbs, fleetVars, engineVars, mainVars, lockVars,
                   checkVars, valueVars, pageVars>>

InitLedger ==
    /\ ledger_pc = [d \in LedgerDbs |-> "ready"]
    /\ seen = [d \in LedgerDbs |-> {}]
    /\ adds = [d \in LedgerDbs |-> 0]
    /\ failed_log = <<>>
    /\ dst_dbs = {}
    /\ IdleDb
    /\ IdleFleet
    /\ IdleEngine
    /\ IdleMain
    /\ IdleLock
    /\ IdleCheck
    /\ IdleValue
    /\ IdlePage

\* failed.py:13-17: read the lines of the file
LedgerRead(d) ==
    /\ ledger_pc[d] = "ready"
    /\ adds[d] < AddsPerTask
    /\ seen' = [seen EXCEPT ![d] = Range(failed_log)]
    /\ ledger_pc' = [ledger_pc EXCEPT ![d] = "read"]
    /\ UNCHANGED <<adds, failed_log, outsideLedger>>

\* An append that does not look at what was read.
AppendAlways(log, listed, db) == Append(log, db)

\* failed.py:19-22: append the name unless it was among the lines read
AppendUnlessListed(log, listed, db) == IF db \in listed THEN log ELSE Append(log, db)

LedgerAppend(d) ==
    /\ ledger_pc[d] = "read"
    /\ failed_log' = AppendUnlessListed(failed_log, seen[d], d)
    /\ adds' = [adds EXCEPT ![d] = @ + 1]
    /\ ledger_pc' = [ledger_pc EXCEPT ![d] = "ready"]
    /\ UNCHANGED <<seen, outsideLedger>>

NextLedger ==
    \/ \E d \in LedgerDbs : LedgerRead(d)
    \/ \E d \in LedgerDbs : LedgerAppend(d)

SpecLedger == InitLedger /\ [][NextLedger]_vars

\* C14: the failure ledger holds each database name at most once, whatever
\* the interleaving of the threads' add_failed_database calls, the repeated
\* adds of one database included.
C14_LedgerNamesOnce ==
    \A i, j \in DOMAIN failed_log : failed_log[i] = failed_log[j] => i = j

\* C14 witness: every thread has added its database twice, and the ledger
\* lists them all.
C14_Witness ==
    /\ \A d \in LedgerDbs : adds[d] = AddsPerTask
    /\ Range(failed_log) = LedgerDbs

(***************************************************************************)
(* SpecLock: the statements the threads of the running databases execute   *)
(* on the connection pair of their database, and the lock they take. The   *)
(* table threads (migrate_table_data) execute each statement inside        *)
(* "with db_lock"; the thread of migrate_database_tables runs              *)
(* migration_success under the lock and dst_conn.rollback() without it.    *)
(***************************************************************************)
outsideLock == <<dbVars, sharedVars, fleetVars, engineVars, mainVars, ledgerVars,
                 checkVars, valueVars, pageVars>>

IsWorker(th) == th[2] # 0
WorkersOf(d) == {th \in Threads : th[1] = d /\ IsWorker(th)}

\* db.py:343-356: the transaction is open and every table task is submitted
InitLock ==
    /\ db_lock = NoThread
    /\ thr = [th \in Threads |-> IF IsWorker(th) THEN "run" ELSE "collect"]
    /\ stmts = [th \in Threads |-> 0]
    /\ collected = [d \in DBs |-> {}]
    /\ failed_log = <<>>
    /\ dst_dbs = DBs
    /\ IdleDb
    /\ IdleFleet
    /\ IdleEngine
    /\ IdleMain
    /\ IdleLedger
    /\ IdleCheck
    /\ IdleValue
    /\ IdlePage

\* db.py:411, 494, 524, 728, 884 (table thread) and db.py:992 (the loop of
\* db.py:359 calling migration_success): the thread reaches "with db_lock"
StatementRequest(th) ==
    /\ \/ IsWorker(th) /\ thr[th] = "run" /\ stmts[th] < MaxStmts
       \/ /\ ~IsWorker(th)
          /\ thr[th] = "collect"
          /\ \E w \in WorkersOf(th[1]) \ collected[th[1]] :
               /\ thr[w] = "done"
               /\ collected' = [collected EXCEPT ![th[1]] = @ \cup {w}]
    /\ IsWorker(th) => UNCHANGED collected
    /\ thr' = [thr EXCEPT ![th] = "waiting"]
    /\ UNCHANGED <<db_lock, stmts, outsideLock>>

\* threading.Lock.acquire: the one lock of the module (db.py:22) is free
LockAcquire(th) ==
    /\ thr[th] = "waiting"
    /\ db_lock = NoThread
    /\ db_lock' = th
    /\ thr' = [thr EXCEPT ![th] = "locked"]
    /\ UNCHANGED <<stmts, collected, outsideLock>>

\* a with block left on an exception without releasing the lock
LeavesLockHeld(th) ==
    /\ thr[th] = "locked"
    /\ db_lock' = db_lock
    /\ IF IsWorker(th)
       THEN /\ thr' = [thr EXCEPT ![th] = "run"]
            /\ stmts' = [stmts EXCEPT ![th] = @ + 1]
       ELSE /\ \E success \in BOOLEAN :
                 thr' = [thr EXCEPT ![th] = IF success THEN "collect" ELSE "rollback"]
            /\ UNCHANGED stmts
    /\ UNCHANGED <<collected, outsideLock>>

\* the statement is done and the with block is left. migration_success
\* returns False or True: db.py:363-371 rolls back on False.
LockRelease(th) ==
    /\ thr[th] = "locked"
    /\ db_lock' = NoThread
    /\ IF IsWorker(th)
       THEN /\ thr' = [thr EXCEPT ![th] = "run"]
            /\ stmts' = [stmts EXCEPT ![th] = @ + 1]
       ELSE /\ \E success \in BOOLEAN :
                 thr' = [thr EXCEPT ![th] = IF success THEN "collect" ELSE "rollback"]
            /\ UNCHANGED stmts
    /\ UNCHANGED <<collected, outsideLock>>

\* db.py:545-566, 642: migrate_table_data returns
WorkerReturn(th) ==
    /\ IsWorker(th)
    /\ thr[th] = "run"
    /\ thr' = [thr EXCEPT ![th] = "done"]
    /\ UNCHANGED <<db_lock, stmts, collected, outsideLock>>

\* db.py:361-368: a table future gave (False, ex): dst_conn.rollback() is
\* called at once, outside any "with db_lock"
RollbackBegin(th) ==
    /\ ~IsWorker(th)
    /\ thr[th] = "collect"
    /\ \E w \in WorkersOf(th[1]) \ collected[th[1]] :
         /\ thr[w] = "done"
         /\ collected' = [collected EXCEPT ![th[1]] = @ \cup {w}]
    /\ thr' = [thr EXCEPT ![th] = "rollback"]
    /\ UNCHANGED <<db_lock, stmts, outsideLock>>

\* db.py:368-371: the rollback is done, the exception is raised; or
\* db.py:373-375: every future was consumed, the pool is shut down
OrchestratorEnd(th) ==
    /\ ~IsWorker(th)
    /\ \/ thr[th] = "rollback"
       \/ thr[th] = "collect" /\ collected[th[1]] = WorkersOf(th[1])
    /\ thr' = [thr EXCEPT ![th] = "done"]
    /\ UNCHANGED <<db_lock, stmts, collected, outsideLock>>

NextLock ==
    \/ \E th \in Threads : StatementRequest(th)
    \/ \E th \in Threads : LockAcquire(th)
    \/ \E th \in Threads : LockRelease(th)
    \/ \E th \in Threads : WorkerReturn(th)
    \/ \E th \in Threads : RollbackBegin(th)
    \/ \E th \in Threads : OrchestratorEnd(th)

SpecLock == InitLock /\ [][NextLock]_vars

\* the thread is executing a statement on the pair of its database
Executing(th) == thr[th] \in {"locked", "rollback"}

\* C16: no two threads ever execute a statement on the connection pair of one
\* database at the same time: every statement issued on the pair while the
\* pool runs, rollback included, is executed holding the lock.
C16_PairStatementsExclusive ==
    \A th, ot \in Threads :
        (th[1] = ot[1] /\ Executing(th) /\ Executing(ot)) => th = ot

\* C17: a thread of one database never waits for a lock that a thread of a
\* different database holds.
C17_NoCrossDatabaseWait ==
    \A th \in Threads :
        (thr[th] = "waiting" /\ db_lock # NoThread) => db_lock[1] = th[1]

(***************************************************************************)
(* SpecCheck: one call of show_results (db.py:1095-1181) against a source  *)
(* and a destination server, with check_mismatches (db.py:1184-1211). A    *)
(* loop visits the databases of its list in the order of the list.         *)
(***************************************************************************)
outsideCheck == <<dbVars, sharedVars, fleetVars, engineVars, mainVars, ledgerVars,
                  lockVars, valueVars, pageVars>>

\* the states of a server: some databases, each with some tables and their rows
Servers(databases) ==
    UNION {UNION {{[dbs |-> D, rows |-> r] : r \in [K -> 0..FleetMaxRows]}
                  : K \in SUBSET (D \X Tables)}
           : D \in SUBSET databases}

\* main.py:275-281: processed_dbs is what migration_process returned, which
\* main.py:52-77 takes from the databases of the source server; it stays None
\* under --check-only
InitCheck ==
    /\ checkpc = "start"
    /\ src_server \in Servers(DBs)
    /\ dst_server \in Servers(DBs)
    /\ processed_dbs \in SUBSET src_server.dbs
    /\ check_src_dbs = {}
    /\ check_dst_dbs = {}
    /\ todo = {}
    /\ src_sizes = NoSizes
    /\ dst_sizes = NoSizes
    /\ verdict = "none"
    /\ named = {}
    /\ only_source = {}
    /\ only_destination = {}
    /\ IdleDb
    /\ IdleFleet
    /\ IdleEngine
    /\ IdleMain
    /\ IdleLedger
    /\ IdleLock
    /\ IdleValue
    /\ IdlePage
    /\ failed_log = <<>>
    /\ dst_dbs = {}

\* db.py:813-822: the migrable databases of a server
get_process_dbs(server) == server.dbs

\* db.py:1127-1131, 1142-1147: the counts of the tables of db on a server,
\* keyed "db.table"
TableSizes(server, db) ==
    [k \in {key \in DOMAIN server.rows : key[1] = db} |-> server.rows[k]]

\* db.py:1179-1181: an exception inside the call is logged as
\* "Error during migration check" and nothing else is reported
CheckError ==
    /\ verdict' = "error"
    /\ checkpc' = "done"

\* db.py:1108-1121
ShowResultsBegin ==
    /\ checkpc = "start"
    /\ check_src_dbs' = IF processed_dbs # {} THEN processed_dbs
                        ELSE get_process_dbs(src_server)
    /\ check_dst_dbs' = IF processed_dbs # {} THEN processed_dbs
                        ELSE get_process_dbs(dst_server)
    /\ IF Cardinality(check_src_dbs') + Cardinality(check_dst_dbs') > 0
       THEN /\ checkpc' = "src"
            /\ todo' = check_src_dbs'
       ELSE /\ checkpc' = "compare"
            /\ todo' = todo
    /\ UNCHANGED <<src_server, dst_server, processed_dbs, src_sizes, dst_sizes,
                   verdict, named, only_source, only_destination, outsideCheck>>

\* db.py:1123-1135, one database of the loop over src_dbs. The USE of
\* db.py:1125 runs on the destination cursor: it raises for a database the
\* destination does not hold.
CheckSource ==
    /\ checkpc = "src"
    /\ IF todo = {}
       THEN /\ checkpc' = "dst"
            /\ todo' = check_dst_dbs
            /\ UNCHANGED <<src_sizes, verdict>>
       ELSE LET db == MinOf(todo)
            IN  IF db \notin dst_server.dbs \/ db \notin src_server.dbs
                THEN /\ CheckError
                     /\ UNCHANGED <<todo, src_sizes>>
                ELSE /\ src_sizes' = TableSizes(src_server, db) @@ src_sizes
                     /\ todo' = todo \ {db}
                     /\ UNCHANGED <<checkpc, verdict>>
    /\ UNCHANGED <<src_server, dst_server, processed_dbs, check_src_dbs,
                   check_dst_dbs, dst_sizes, named, only_source, only_destination,
                   outsideCheck>>

\* db.py:1138-1151, one database of the loop over dst_dbs
CheckDestination ==
    /\ checkpc = "dst"
    /\ IF todo = {}
       THEN /\ checkpc' = "compare"
            /\ UNCHANGED <<todo, dst_sizes, verdict>>
       ELSE LET db == MinOf(todo)
            IN  IF db \notin dst_server.dbs
                THEN /\ CheckError
                     /\ UNCHANGED <<todo, dst_sizes>>
                ELSE /\ dst_sizes' = TableSizes(dst_server, db) @@ dst_sizes
                     /\ todo' = todo \ {db}
                     /\ UNCHANGED <<checkpc, verdict>>
    /\ UNCHANGED <<src_server, dst_server, processed_dbs, check_src_dbs,
                   check_dst_dbs, src_sizes, named, only_source, only_destination,
                   outsideCheck>>

\* db.py:1208-1211: the tables of both maps whose counts differ
check_mismatches(src, dst) ==
    {k \in DOMAIN src : k \in DOMAIN dst /\ dst[k] # src[k]}

\* db.py:1194-1206: the databases of the list mine that the list other lacks
OnlyIn(mine, other) == {db \in mine : db \notin other}

\* db.py:1159-1177
CompareSizes ==
    /\ checkpc = "compare"
    /\ checkpc' = "done"
    /\ IF DOMAIN src_sizes = {} /\ DOMAIN dst_sizes = {}
       THEN /\ verdict' = "nodata"
            /\ UNCHANGED <<named, only_source, only_destination>>
       ELSE IF src_sizes = dst_sizes /\ DOMAIN src_sizes # {} /\ DOMAIN dst_sizes # {}
       THEN /\ verdict' = "ok"
            /\ UNCHANGED <<named, only_source, only_destination>>
       ELSE /\ verdict' = "ko"
            /\ named' = check_mismatches(src_sizes, dst_sizes)
            /\ only_source' = OnlyIn(check_src_dbs, check_dst_dbs)
            /\ only_destination' = OnlyIn(check_dst_dbs, check_src_dbs)
    /\ UNCHANGED <<src_server, dst_server, processed_dbs, check_src_dbs,
                   check_dst_dbs, todo, src_sizes, dst_sizes, outsideCheck>>

NextCheck == ShowResultsBegin \/ CheckSource \/ CheckDestination \/ CompareSizes

SpecCheck == InitCheck /\ [][NextCheck]_vars

\* C20: the verification reports success exactly when the source and the
\* destination row-count maps are equal, key sets included; when they differ
\* it reports failure and names at least every table of both maps whose
\* counts differ.
C20_VerdictMatchesMaps ==
    checkpc = "done" =>
        /\ (verdict = "ok") <=> (src_sizes = dst_sizes)
        /\ src_sizes # dst_sizes =>
               /\ verdict = "ko"
               /\ check_mismatches(src_sizes, dst_sizes) \subseteq named

\* C21: whenever the verification pass ends without reporting agreement, every
\* database of its source list that the destination does not hold has been
\* reported as source-only, every database of its destination list that the
\* source does not hold as destination-only, and every table of both maps
\* with differing counts has been reported.
C21_MismatchesClassified ==
    (checkpc = "done" /\ verdict \notin {"ok", "nodata"}) =>
        /\ \A db \in check_src_dbs : db \notin dst_server.dbs => db \in only_source
        /\ \A db \in check_dst_dbs : db \notin src_server.dbs => db \in only_destination
        /\ check_mismatches(src_sizes, dst_sizes) \subseteq named

(***************************************************************************)
(* SpecValue: one call of escape_value (db.py:48-98) on a cell of a row.   *)
(* Text is a sequence of characters, so that lower(), isoformat() and      *)
(* str() are computed character by character.                              *)
(***************************************************************************)
outsideValue == <<dbVars, sharedVars, fleetVars, engineVars, mainVars, ledgerVars,
                  lockVars, checkVars, pageVars>>

PyStr(text) == Value("str", text, <<>>, {})
PyInt(n) == Value("int", <<>>, <<n>>, {})
PyNone == Value("None", <<>>, <<>>, {})

\* str.lower() on the letters of the texts below; every other character is
\* its own lower case
lower_char(c) ==
    CASE c = "T" -> "t" [] c = "R" -> "r" [] c = "U" -> "u" [] c = "E" -> "e"
      [] c = "F" -> "f" [] c = "A" -> "a" [] c = "L" -> "l" [] c = "S" -> "s"
      [] OTHER -> c

\* a comparison that is sensitive to the case of the letters
NoLower(text) == text

lower(text) == [i \in DOMAIN text |-> lower_char(text[i])]

upper_char(c) ==
    CASE c = "t" -> "T" [] c = "r" -> "R" [] c = "u" -> "U" [] c = "e" -> "E"
      [] c = "f" -> "F" [] c = "a" -> "A" [] c = "l" -> "L" [] c = "s" -> "S"
      [] OTHER -> c

TrueWord == <<"t", "r", "u", "e">>
FalseWord == <<"f", "a", "l", "s", "e">>

\* n in decimal, w digits wide
Digits(n, w) ==
    [i \in 1..w |-> <<"0", "1", "2", "3", "4", "5", "6", "7", "8", "9">>
                        [((n \div (10 ^ (w - i))) % 10) + 1]]

\* date.isoformat, time.isoformat and datetime.isoformat of a naive value:
\* YYYY-MM-DD, HH:MM:SS[.ffffff], and the two joined by "T"
isoformat(v) ==
    LET n == v.nums
        IsoDate(y, m, d) ==
            Digits(y, 4) \o <<"-">> \o Digits(m, 2) \o <<"-">> \o Digits(d, 2)
        IsoTime(h, mi, sec, us) ==
            Digits(h, 2) \o <<":">> \o Digits(mi, 2) \o <<":">> \o Digits(sec, 2)
                \o (IF us = 0 THEN <<>> ELSE <<".">> \o Digits(us, 6))
    IN  CASE v.type = "date" -> IsoDate(n[1], n[2], n[3])
          [] v.type = "time" -> IsoTime(n[1], n[2], n[3], n[4])
          [] v.type = "datetime" ->
                IsoDate(n[1], n[2], n[3]) \o <<"T">> \o IsoTime(n[4], n[5], n[6], n[7])

\* datetime.strptime('0001-01-01', '%Y-%m-%d') and
\* datetime.strptime('0001-01-01 00:00:00', '%Y-%m-%d %H:%M:%S') (db.py:88, 90):
\* both are the datetime of midnight, 1 January of year 1
strptime == Value("datetime", <<>>, <<1, 1, 1, 0, 0, 0, 0>>, {})

\* the decimal digits of n > 0 without leading zeros, "0" for 0
RECURSIVE DigitsOf(_)
DigitsOf(n) == IF n < 10 THEN Digits(n, 1) ELSE DigitsOf(n \div 10) \o Digits(n % 10, 1)

\* str(Decimal) for a value <<sign, coefficient, places>> with places >= 0
\* digits after the point, where Python uses no exponent
DecimalStr(v) ==
    LET sign == v.nums[1]
        digits == DigitsOf(v.nums[2])
        places == v.nums[3]
        dotplace == Len(digits) - places
        intpart == IF dotplace <= 0 THEN <<"0">> ELSE SubSeq(digits, 1, dotplace)
        fracpart == IF places = 0 THEN <<>>
                    ELSE <<".">> \o [i \in 1..(IF dotplace < 0 THEN -dotplace ELSE 0) |-> "0"]
                               \o SubSeq(digits, Max(1, dotplace + 1), Len(digits))
    IN  (IF sign = 1 THEN <<"-">> ELSE <<>>) \o intpart \o fracpart

\* ','.join of the elements in the order the set iterates them
RECURSIVE Join(_)
Join(order) ==
    IF order = <<>> THEN <<>>
    ELSE IF Len(order) = 1 THEN order[1]
    ELSE order[1] \o <<",">> \o Join(Tail(order))

\* cells as the connector returns them; the text cells are the boolean
\* words and words near them, each in every mix of letter cases
Cells ==
    LET Spellings(word) ==
            {[i \in DOMAIN word |-> IF i \in U THEN upper_char(word[i]) ELSE word[i]]
             : U \in SUBSET DOMAIN word}
        Texts ==
            UNION {Spellings(w) : w \in {TrueWord, FalseWord, <<"t", "r", "u">>,
                                         <<"t", "r", "u", "e", "s">>, <<"1">>, <<>>}}
    IN
    {PyStr(t) : t \in Texts}
    \cup {Value("set", <<>>, <<>>, S) : S \in SUBSET {<<"a">>, <<"b">>, TrueWord}}
    \cup {Value("bool", <<>>, <<b>>, {}) : b \in {0, 1}}
    \cup {Value("date", <<>>, n, {}) : n \in {<<1, 1, 1>>, <<2024, 12, 31>>}}
    \cup {Value("time", <<>>, n, {}) : n \in {<<0, 0, 0, 0>>, <<23, 59, 58, 5>>}}
    \cup {Value("datetime", <<>>, n, {})
          : n \in {<<1, 1, 1, 0, 0, 0, 0>>, <<2024, 12, 31, 23, 59, 58, 0>>,
                   <<2024, 12, 31, 23, 59, 58, 5>>}}
    \cup {Value("Decimal", <<>>, <<sg, c, pl>>, {})
          : sg \in {0, 1}, c \in {0, 5, 15, 150, 1205}, pl \in 0..3}
    \cup {Value("int", <<>>, <<n>>, {}) : n \in {0, 1, 7}}
    \cup {Value("bytes", t, <<>>, {}) : t \in {<<>>, TrueWord}}
    \cup {Value("float", <<>>, <<1, 5>>, {}), PyNone}

\* mysql.connector.constants.FieldType of the cell's column
FieldTypes == {"DATE", "DATETIME", "TIMESTAMP", "TIME", "LONG", "VAR_STRING",
               "NEWDECIMAL", "SET"}

InitValue ==
    /\ escpc = "call"
    /\ cell \in Cells
    /\ column_type \in FieldTypes
    /\ escaped = NoValue
    /\ IdleDb
    /\ IdleFleet
    /\ IdleEngine
    /\ IdleMain
    /\ IdleLedger
    /\ IdleLock
    /\ IdleCheck
    /\ IdlePage
    /\ failed_log = <<>>
    /\ dst_dbs = {}

\* db.py:48-98; order is the order in which the set yields its elements
escape_value(value, type, order) ==
    IF value.type = "str"
    THEN IF lower(value.text) = TrueWord THEN PyInt(1)
         ELSE IF lower(value.text) = FalseWord THEN PyInt(0)
         ELSE value
    ELSE IF value.type = "set" THEN PyStr(Join(order))
    ELSE IF value.type = "bool" THEN (IF value.nums[1] # 0 THEN PyInt(1) ELSE PyInt(0))
    ELSE IF value.type \in {"datetime", "date", "time"} THEN PyStr(isoformat(value))
    ELSE IF value.type = "Decimal" THEN PyStr(DecimalStr(value))
    ELSE IF value.type = "None"
    THEN IF type = "DATE" THEN PyStr(isoformat(strptime))
         ELSE IF type = "DATETIME" THEN PyStr(isoformat(strptime))
         ELSE IF type = "TIMESTAMP" THEN PyNone
         ELSE PyNone
    ELSE value

\* the call
Escape ==
    /\ escpc = "call"
    /\ \E order \in Orderings(cell.items) :
         escaped' = escape_value(cell, column_type, order)
    /\ escpc' = "done"
    /\ UNCHANGED <<cell, column_type, outsideValue>>

SpecValue == InitValue /\ [][Escape]_vars

(***************************************************************************)
(* Claims about escape_value (SpecValue).                                  *)
(***************************************************************************)
\* word spelled in some mix of letter cases
SameWord(text, word) ==
    /\ Len(text) = Len(word)
    /\ \A i \in DOMAIN word : text[i] \in {word[i], upper_char(word[i])}

\* C23: the rules apply in order, the first match wins: text equal to
\* "true"/"false" in any letter case gives 1/0 and other text is unchanged; a
\* set gives its elements joined by commas; a boolean gives 1 or 0; a temporal
\* value gives its ISO-8601 string; a decimal gives its string; any other
\* value that is not NULL is returned unchanged.
C23_EscapeRulesInOrder ==
    (escpc = "done" /\ cell # PyNone) =>
        CASE cell.type = "str" ->
                IF SameWord(cell.text, TrueWord) THEN escaped = PyInt(1)
                ELSE IF SameWord(cell.text, FalseWord) THEN escaped = PyInt(0)
                ELSE escaped = cell
          [] cell.type = "set" ->
                /\ escaped.type = "str"
                /\ \E order \in Orderings(cell.items) : escaped.text = Join(order)
          [] cell.type = "bool" ->
                /\ escaped.type = "int"
                /\ escaped.nums \in {<<0>>, <<1>>}
                /\ escaped.nums = cell.nums
          [] cell.type \in {"datetime", "date", "time"} ->
                escaped = PyStr(isoformat(cell))
          [] cell.type = "Decimal" ->
                escaped = PyStr(DecimalStr(cell))
          [] OTHER -> escaped = cell

\* a text cell that spells "true" with capitals has been escaped
C23_Witness ==
    /\ escpc = "done"
    /\ cell = PyStr(<<"T", "r", "U", "e">>)
    /\ escaped = PyInt(1)

\* C24: for a NULL cell the call returns, by the declared type of the column:
\* for DATE the date-only ISO string 0001-01-01, for DATETIME
\* 0001-01-01T00:00:00, for TIMESTAMP and every other type NULL.
C24_NullByColumnType ==
    (escpc = "done" /\ cell = PyNone) =>
        CASE column_type = "DATE" ->
                escaped = PyStr(<<"0", "0", "0", "1", "-", "0", "1", "-", "0", "1">>)
          [] column_type = "DATETIME" ->
                escaped = PyStr(<<"0", "0", "0", "1", "-", "0", "1", "-", "0", "1", "T",
                                  "0", "0", ":", "0", "0", ":", "0", "0">>)
          [] OTHER -> escaped = PyNone

(***************************************************************************)
(* SpecBatch: the batch state of the loop of migrate_table_data            *)
(* (db.py:488-610) on a table that does not run out of rows within         *)
(* MaxIterations iterations, with the baselines a user gives. The rows are *)
(* not modelled: every SELECT returns a full batch.                        *)
(***************************************************************************)
\* -b values: 2048 is the default (main.py:236)
Baselines == {400, 2048}

\* an error or a slow iteration may still come
MayDisturb == errors + throttled < MaxDisturbed

\* what a statement of SpecBatch may raise
BatchOutcomes(errs) == IF MayDisturb THEN {"ok"} \cup errs ELSE {"ok"}

InitBatch ==
    /\ engpc = "fetch"
    /\ result = "none"
    /\ src_keys = {}
    /\ use_pk = FALSE
    /\ has_long_columns \in BOOLEAN
    /\ original_batch_size \in Baselines
    /\ dst_initial = {}
    /\ dst_rows = {}
    /\ first_pk = 0
    /\ offset = 0
    /\ batch_size = InitialSize(original_batch_size, has_long_columns)
    /\ calculated_batch_size = batch_size
    /\ increment_batch = 0
    /\ increment_batch_blocks = 0
    /\ progress_created = FALSE
    /\ rows = {}
    /\ errors = 0
    /\ errno = 0
    /\ reconnected = FALSE
    /\ batch_pos = -1
    /\ fail_pos = -1
    /\ session = connect(ActiveDb, ActiveDb)
    /\ fetched_with = 0
    /\ elapsed = 0
    /\ iterations = 0
    /\ throttled = 0
    /\ fast_run = 0
    /\ boosts = 0
    /\ IdleDb
    /\ IdleFleet
    /\ IdleMain
    /\ failed_log = <<>>
    /\ dst_dbs = {}
    /\ IdleAux

\* db.py:488-510: the SELECT of a batch
BatchFetch ==
    /\ engpc = "fetch"
    /\ iterations < MaxIterations
    /\ \E outcome \in BatchOutcomes({"2013"}) :
         IF outcome = "ok"
         THEN /\ fetched_with' = batch_size
              /\ progress_created' = TRUE
              /\ engpc' = "insert"
              /\ UNCHANGED <<result, errors, errno, reconnected, batch_size,
                             session, fast_run, fail_pos>>
         ELSE /\ ConnectionLost(offset)
              /\ UNCHANGED <<fetched_with, progress_created>>
    /\ UNCHANGED <<src_keys, use_pk, has_long_columns, original_batch_size,
                   dst_initial, dst_rows, first_pk, offset, calculated_batch_size,
                   increment_batch, increment_batch_blocks, rows, batch_pos,
                   elapsed, iterations, throttled, boosts, outsideEngine>>

\* db.py:517-566: the INSERT of the batch, its fallback (db.py:541-545) and
\* the lost connection (db.py:547-562)
BatchInsert ==
    /\ engpc = "insert"
    /\ \E outcome \in (IF session.dst_db = None THEN {"1046"}
                       ELSE BatchOutcomes({"2013", "1064"})) :
         CASE outcome = "ok" ->
                /\ Boosted
                /\ engpc' = "post"
                /\ UNCHANGED <<result, errors, errno, reconnected, fail_pos, session,
                               fast_run>>
           [] outcome = "1064" ->
                /\ errno' = 1064
                /\ errors' = errors + 1
                /\ fast_run' = -1
                /\ \E ok \in BOOLEAN :
                     IF ok THEN engpc' = "post" /\ result' = result
                     ELSE Return("fail")
                /\ UNCHANGED <<reconnected, fail_pos, batch_size, increment_batch,
                               increment_batch_blocks, session, boosts>>
           [] outcome = "2013" ->
                /\ ConnectionLost(offset)
                /\ UNCHANGED <<increment_batch, increment_batch_blocks, boosts>>
           [] outcome = "1046" ->
                /\ NoDatabaseSelected
                /\ UNCHANGED <<increment_batch, increment_batch_blocks, boosts>>
    /\ UNCHANGED <<src_keys, use_pk, has_long_columns, original_batch_size,
                   dst_initial, dst_rows, first_pk, offset, calculated_batch_size,
                   progress_created, rows, batch_pos, fetched_with, elapsed,
                   iterations, throttled, outsideEngine>>

\* db.py:568-642: the time of the iteration and the throttle
BatchAfter ==
    /\ engpc = "post"
    /\ \E ms \in (IF MayDisturb THEN Differences ELSE {1000}) :
         Throttle(ms)
    /\ offset' = offset + fetched_with
    /\ engpc' = "fetch"
    /\ UNCHANGED <<result, src_keys, use_pk, has_long_columns, original_batch_size,
                   dst_initial, dst_rows, first_pk, calculated_batch_size,
                   progress_created, rows, errors, errno, reconnected, batch_pos,
                   fail_pos, session, fetched_with, outsideEngine>>

NextBatch == BatchFetch \/ BatchInsert \/ BatchAfter

SpecBatch == InitBatch /\ [][NextBatch]_vars

(***************************************************************************)
(* SpecPage: the pagination of migrate_table_data (db.py:410-464, 486-515, *)
(* 568-569, 638-642) on an unmodified source and with no error of the      *)
(* servers. Keys are counted in halves, so that 3 stands for 1.5 and the   *)
(* 1 of db.py:512 is 2.                                                    *)
(***************************************************************************)
One == 2

\* an allow-list that also holds a text type
WithTextType == {"BIT", "DOUBLE", "ENUM", "FLOAT", "INT24", "LONG", "LONGLONG",
                 "SHORT", "TINY", "YEAR", "VAR_STRING"}

\* db.py:448-459
valid_pk_types == {"BIT", "DOUBLE", "ENUM", "FLOAT", "INT24", "LONG", "LONGLONG",
                   "SHORT", "TINY", "YEAR"}

\* the types of a first primary-key column the model draws from
PkColumnTypes == valid_pk_types \cup {"VAR_STRING", "BLOB", "NEWDECIMAL"}

\* the types whose values need not be whole numbers
Fractional == {"FLOAT", "DOUBLE", "NEWDECIMAL"}

\* the types the connector returns as str: rows[-1][pk_index] + 1 (db.py:512)
\* raises TypeError on them
ReturnedAsStr == {"ENUM", "VAR_STRING", "BLOB"}

\* the tables: any set of keys for a fractional type, whole keys for the others
PageTables(type) ==
    IF type \in Fractional THEN SUBSET (One..MaxKey)
    ELSE SUBSET {k \in One..MaxKey : k % One = 0}

InitPage ==
    /\ engpc = "setup"
    /\ result = "none"
    /\ pk_count \in 0..2
    /\ pk_type \in (IF pk_count = 0 THEN {"unset"} ELSE PkColumnTypes)
    /\ src_keys \in PageTables(pk_type)
    /\ use_pk = FALSE
    /\ has_long_columns = FALSE
    /\ original_batch_size \in 1..MaxPage
    /\ dst_initial = {}
    /\ dst_rows = {}
    /\ first_pk = 0
    /\ offset = 0
    /\ batch_size = 0
    /\ calculated_batch_size = 0
    /\ increment_batch = 0
    /\ increment_batch_blocks = 0
    /\ progress_created = FALSE
    /\ rows = {}
    /\ errors = 0
    /\ errno = 0
    /\ reconnected = FALSE
    /\ batch_pos = -1
    /\ fail_pos = -1
    /\ session = connect(ActiveDb, ActiveDb)
    /\ fetched_with = 0
    /\ elapsed = 0
    /\ iterations = 0
    /\ throttled = 0
    /\ fast_run = 0
    /\ boosts = 0
    /\ pages = <<>>
    /\ modes = {}
    /\ IdleDb
    /\ IdleFleet
    /\ IdleMain
    /\ failed_log = <<>>
    /\ dst_dbs = {}
    /\ IdleLedger
    /\ IdleLock
    /\ IdleCheck
    /\ IdleValue

outsidePage == <<dbVars, sharedVars, fleetVars, mainVars, ledgerVars, lockVars,
                 checkVars, valueVars>>

\* db.py:411-484: row count, first key, and the choice of the pagination
PageSetup ==
    /\ engpc = "setup"
    /\ IF src_keys = {}
       THEN /\ Return("ok")
            /\ UNCHANGED <<use_pk, first_pk, batch_size, calculated_batch_size>>
       ELSE /\ use_pk' = (pk_count = 1 /\ pk_type \in valid_pk_types)
            /\ first_pk' = IF pk_count = 1 THEN MinOf(src_keys) ELSE 0
            /\ batch_size' = InitialSize(original_batch_size, has_long_columns)
            /\ calculated_batch_size' = batch_size'
            /\ engpc' = "fetch"
            /\ result' = result
    /\ UNCHANGED <<src_keys, has_long_columns, original_batch_size, dst_initial,
                   dst_rows, offset, increment_batch, increment_batch_blocks,
                   progress_created, rows, errors, errno, reconnected, batch_pos,
                   fail_pos, session, fetched_with, elapsed, iterations, throttled,
                   fast_run, boosts, pk_count, pk_type, pages, modes, outsidePage>>

\* db.py:488-569, 638-642: one iteration with no error of the servers: the
\* SELECT, the next cursor, the INSERT, the offset. On a key the connector
\* returns as str the SELECT compares with an unquoted word and raises, or
\* the sum of db.py:512 raises TypeError: the call returns (False, ex).
PageFetch ==
    /\ engpc = "fetch"
    /\ LET page == IF use_pk
                   THEN PkPage(src_keys, first_pk, batch_size)
                   ELSE OffsetPage(src_keys, offset, batch_size)
       IN  /\ modes' = modes \cup {IF use_pk THEN "pk" ELSE "offset"}
           /\ batch_pos' = Position
           /\ fetched_with' = batch_size
           /\ IF use_pk /\ pk_type \in ReturnedAsStr
              THEN /\ Return("fail")
                   /\ \E fetched \in BOOLEAN :
                        /\ rows' = IF fetched THEN page ELSE rows
                        /\ pages' = IF fetched THEN Append(pages, page) ELSE pages
                        /\ progress_created' = fetched
                   /\ UNCHANGED <<first_pk, offset, dst_rows, iterations,
                                  increment_batch>>
              ELSE /\ rows' = page
                   /\ IF page = {}
                      THEN /\ Return("ok")
                           /\ UNCHANGED <<pages, progress_created, first_pk, offset,
                                          dst_rows, iterations, increment_batch>>
                      ELSE /\ pages' = Append(pages, page)
                           /\ progress_created' = TRUE
                           /\ first_pk' = IF use_pk THEN MaxOf(page) + One ELSE first_pk
                           /\ dst_rows' = dst_rows \cup page
                           /\ increment_batch' = increment_batch + 1
                           /\ offset' = offset + Cardinality(page)
                           /\ iterations' = iterations + 1
                           /\ IF offset' >= Cardinality(src_keys)
                              THEN Return("ok")
                              ELSE engpc' = "fetch" /\ result' = result
    /\ UNCHANGED <<src_keys, use_pk, has_long_columns, original_batch_size,
                   dst_initial, batch_size, calculated_batch_size,
                   increment_batch_blocks, errors, errno, reconnected, fail_pos,
                   session, elapsed, throttled, fast_run, boosts, pk_count, pk_type,
                   outsidePage>>

NextPage == PageSetup \/ PageFetch

SpecPage == InitPage /\ [][NextPage]_vars

\* the step that ends an iteration of the loop (db.py:568-610)
IterationEnds == iterations' = iterations + 1

\* C28: an iteration that took more than 4 seconds leaves the batch size at
\* max(1, s // 2), s being the size its batch was fetched with, and both
\* counters at 0, also when its batch was the 10th consecutive one.
C28_HeavyThrottleHalvesFetchedSize ==
    [][(IterationEnds /\ elapsed' > VerySlowSeconds * 1000) =>
          /\ batch_size' = Max(1, fetched_with \div 2)
          /\ increment_batch' = 0
          /\ increment_batch_blocks' = 0]_vars

\* the effect of the mild branch (db.py:599-608) on a step
MildEffect ==
    /\ batch_size' = Max(1, batch_size \div 2)
    /\ increment_batch' = Max(0, increment_batch - 1)
    /\ increment_batch_blocks' = Max(0, increment_batch_blocks - 1)

\* C29 as stated: an iteration that took more than 2 and at most 4 seconds
\* halves the batch size (floor 1) and steps both counters back by one, not
\* below zero; one of at most 2 seconds leaves the batch size and the counters.
C29_MildThrottle ==
    [][IterationEnds =>
          /\ (elapsed' > SlowSeconds * 1000 /\ elapsed' <= VerySlowSeconds * 1000)
                => MildEffect
          /\ elapsed' <= SlowSeconds * 1000
                => UNCHANGED <<batch_size, increment_batch, increment_batch_blocks>>]_vars

\* C29 amended: the same with the time of the iteration rounded to hundredths
\* of a second, as the loop measures it.
C29_MildThrottleRounded ==
    [][IterationEnds =>
          /\ (difference' > SlowSeconds * 100 /\ difference' <= VerySlowSeconds * 100)
                => MildEffect
          /\ difference' <= SlowSeconds * 100
                => UNCHANGED <<batch_size, increment_batch, increment_batch_blocks>>]_vars

\* an iteration with a boost at its INSERT has just ended on the mild branch
C29_Witness ==
    /\ engpc = "fetch"
    /\ iterations = BoostPeriod
    /\ difference > SlowSeconds * 100
    /\ difference <= VerySlowSeconds * 100
    /\ increment_batch = 0
    /\ increment_batch_blocks = 0
    /\ batch_size = Max(1, (fetched_with * BoostCap) \div 2)

\* the step of the handler of error 2013 (db.py:546-562)
LostStep == errno' = 2013 /\ errors' = errors + 1

\* C30: the recovery from a lost connection leaves the consecutive-batch
\* counter, the boost-block counter, the offset and the baseline batch size
\* as they were, and the branch of an iteration measured over 4 seconds sets
\* both counters to 0.
C30_LostKeepsCountersHeavyResets ==
    [][/\ LostStep =>
            UNCHANGED <<increment_batch, increment_batch_blocks, offset,
                        calculated_batch_size, original_batch_size, first_pk,
                        dst_rows>>
       /\ (IterationEnds /\ difference' > VerySlowSeconds * 100) =>
            (increment_batch' = 0 /\ increment_batch_blocks' = 0)]_vars

\* a connection was lost and recovered, the batch shrunk, with both counters
\* and the offset above 0
C30_Witness ==
    /\ errno = 2013
    /\ reconnected
    /\ engpc = "fetch"
    /\ fast_run = 0
    /\ increment_batch > 0
    /\ increment_batch_blocks > 0
    /\ offset > 0
    /\ batch_size = Max(1, (calculated_batch_size * BoostCap) \div LostDivisor)

\* the step of the boost (db.py:535-538)
BoostStep == increment_batch_blocks' = increment_batch_blocks + 1

\* C27: after any sequence of boosts, throttles and shrinks the boost never
\* leaves a batch size smaller than the one just before it.
C27_BoostNeverShrinks ==
    [][BoostStep => batch_size' >= batch_size]_vars

\* every iteration so far inserted its batch in bulk, was not throttled, and
\* no connection was lost
FastFromStart == fast_run = iterations /\ errors = 0

\* the first boost comes with the 10th batch of a transfer that went fast
\* from its start, and sets the batch size to min(b + 2048, b * 6), b being
\* the size the transfer started with
FirstBoostAtTenth ==
    (engpc = "fetch" /\ FastFromStart) =>
        /\ iterations < BoostPeriod =>
              (batch_size = calculated_batch_size /\ boosts = 0)
        /\ iterations = BoostPeriod =>
              /\ boosts = 1
              /\ batch_size = Min(calculated_batch_size + boost,
                                  calculated_batch_size * BoostCap)

\* C26 as stated: the first boost comes with the 10th fast batch and gives
\* min(b + 2048, b * 6); the k-th boost since the counters were last reset
\* sets the batch size to min(b + k * 2048, current size * 6) and the
\* consecutive-batch counter to 0.
C26_KthBoost ==
    [][/\ FirstBoostAtTenth
       /\ BoostStep =>
            /\ batch_size' = Min(calculated_batch_size + boosts' * boost,
                                 batch_size * BoostCap)
            /\ increment_batch' = 0]_vars

\* C26 amended: the same with the value of the boost-block counter after its
\* increment in the place of k.
C26_BoostByBlockCounter ==
    [][/\ FirstBoostAtTenth
       /\ BoostStep =>
            /\ batch_size' = Min(calculated_batch_size + increment_batch_blocks' * boost,
                                 batch_size * BoostCap)
            /\ increment_batch' = 0]_vars

\* the second boost since the start, after a mild throttle took the
\* boost-block counter back to 0, has added 2048 once to a baseline of 2048
C26_Witness ==
    /\ engpc = "post"
    /\ boosts = 2
    /\ increment_batch_blocks = 1
    /\ increment_batch = 0
    /\ calculated_batch_size = 2048
    /\ batch_size = calculated_batch_size + boost

\* how a table with one primary-key column of an allow-listed type (bit,
\* float, double, enum, the integer types, year) is to be paginated, and any
\* other table
Pagination ==
    IF pk_count = 1 /\ pk_type \in {"BIT", "FLOAT", "DOUBLE", "ENUM", "TINY", "SHORT",
                                    "INT24", "LONG", "LONGLONG", "YEAR"}
    THEN "pk" ELSE "offset"

\* C31: a table is paginated by PK range exactly when it has one primary-key
\* column of an allow-listed type; every fetch of a transfer paginates the
\* way the setup chose.
C31_PkRangeIffSingleAllowListedPk ==
    (engpc \in {"fetch", "done"} /\ src_keys # {}) =>
        /\ use_pk <=> Pagination = "pk"
        /\ modes \subseteq {Pagination}

\* a table with a text primary key was fetched in two pages by LIMIT/OFFSET
C31_Witness ==
    /\ pk_count = 1
    /\ pk_type = "VAR_STRING"
    /\ Len(pages) = 2
    /\ modes = {"offset"}

\* C32: a transfer paginated by PK range, of any allow-listed type, has
\* fetched pages in strictly ascending key order, pairwise disjoint, that
\* together hold every row of the source.
C32_PkPagesCoverSource ==
    (use_pk /\ engpc = "done") =>
        /\ \A i, j \in DOMAIN pages :
              i < j => \A a \in pages[i], b \in pages[j] : a < b
        /\ UNION {pages[i] : i \in DOMAIN pages} = src_keys

\* migrate_table_data on the tables of at most ShortRows rows
InitShortTable == InitTable /\ Cardinality(src_keys) <= ShortRows

SpecShortTable == InitShortTable /\ [][NextTable]_vars

\* the step of the handler of errors 1062 and 1064 (db.py:541-545)
FallbackStep == engpc = "insert" /\ fast_run' = -1

\* C33: after a bulk INSERT failed with 1062 or 1064 the rows of the batch
\* are inserted one by one: duplicates are skipped and the rows after them
\* still inserted; the first other error ends the call with (False, ex),
\* the rows before it inserted; with no such error the loop goes on and the
\* offset advances by the rows of the batch.
C33_SingleRowFallback ==
    [][/\ FallbackStep =>
            /\ errno' \in {1062, 1064}
            /\ \/ /\ engpc' = "post"
                  /\ result' = result
                  /\ dst_rows' = dst_rows \cup rows
               \/ /\ engpc' = "done"
                  /\ result' = "fail"
                  /\ \E bad \in rows \ dst_rows :
                        dst_rows' = dst_rows \cup {k \in rows : k < bad}
       /\ (engpc = "post" /\ fast_run = -1) =>
            /\ offset' = offset + Cardinality(rows)
            /\ engpc' = "fetch" \/ (engpc' = "done" /\ result' = "ok")]_vars

\* the fallback met a duplicate, inserted the row after it, and the loop
\* went on to the next batch
C33_Witness ==
    /\ engpc = "fetch"
    /\ errno = 1062
    /\ offset = Cardinality(rows)
    /\ \E dup \in rows \cap dst_initial : \E k \in rows \ dst_initial : k > dup
    /\ rows \subseteq dst_rows

\* every statement returns and the thread is scheduled: a step of the call
\* that can be taken is taken; the servers raise at most MaxErrors errors
SpecShortTableFair == SpecShortTable /\ WF_vars(NextTable)

\* C34: every table transfer eventually returns
C34_TransferReturns == <>(engpc = "done")

\* a transfer returned success after two iterations, one of them through the
\* single-row fallback
C34_Witness ==
    /\ engpc = "done"
    /\ result = "ok"
    /\ iterations >= 2
    /\ errno = 1064

\* C35: the stages of one database run in order: no table transfer exists
\* while the schema is being created; the routines are created only after
\* the commit of the table data (a database with no table has none), and
\* never after the schema or the table stage failed.
C35_StagesInOrder ==
    /\ dbpc = "schema" => \A t \in Tables : tpc[t] = "none"
    /\ dbpc \in {"procs", "returned"} =>
          /\ ntables > 0 => committed
          /\ stage_failed \in {"none", "procs"}
          /\ \A t \in Tables : tpc[t] = "none"

\* the routines of a database with tables were created after the commit
C35_Witness ==
    /\ dbpc = "returned"
    /\ stage_failed = "none"
    /\ ntables > 0
    /\ committed
    /\ db_name \in dst_dbs

\* C36: for a baseline of at least 1 every fetch of a transfer uses a batch
\* size of at least 1, tables with long columns included.
C36_FetchSizeAtLeastOne ==
    (original_batch_size >= 1 /\ batch_pos # -1) => fetched_with >= 1

\* every statement returns, so a with block that was entered is left; the
\* scheduler is fair: a thread that finds the lock free again and again
\* obtains it
SpecLockFair ==
    /\ SpecLock
    /\ \A th \in Threads : WF_vars(LockRelease(th))
    /\ \A th \in Threads : SF_vars(LockAcquire(th))

\* C37: db_lock causes no deadlock: a thread that waits for the lock does
\* not hold it, the lock is held only by a thread inside its with block, and
\* every thread that waits for the lock obtains it.
C37_LockNeverDeadlocks ==
    /\ [](\A th \in Threads :
            /\ thr[th] = "waiting" => db_lock # th
            /\ db_lock = th => thr[th] = "locked")
    /\ \A th \in Threads : (thr[th] = "waiting") ~> (thr[th] = "locked")

\* a table thread holds the lock while a thread of the same database and one
\* of the other database wait for it
C37_Witness ==
    /\ db_lock = <<1, 1>>
    /\ thr[<<1, 2>>] = "waiting"
    /\ thr[<<2, 1>>] = "waiting"

\* C38: between the rollback that follows a failed table and the raise that
\* reaches migrate_database no table transfer of the database starts and no
\* running transfer inserts rows.
C38_RollbackStopsSiblings ==
    [][(rolledback /\ dbpc = "shutdown" /\ dbpc' = "shutdown") =>
          \A t \in Tables :
              /\ tpc[t] = "queued" => tpc'[t] = "queued"
              /\ dst_count'[t] = dst_count[t]]_vars

\* C39: the drop before the migration removes only databases that are among
\* the source databases about to be migrated.
C39_DropsOnlyMigratedDbs ==
    dropped \subseteq src_dbs

(***************************************************************************)
(* SpecGrants: migrate_grants (db.py:740-769): the pair connect() returns   *)
(* with src_db='mysql' and no destination database, the transfer of the     *)
(* table user, then commit, or rollback in the except clause. dbpc is the   *)
(* position of the call, committed and rolledback tell which of             *)
(* dst_conn.commit() (db.py:758) and dst_conn.rollback() (db.py:767) ran.   *)
(***************************************************************************)
InitGrants ==
    /\ engpc = "idle"
    /\ result = "none"
    /\ src_keys \in {k \in SourceTables : Cardinality(k) <= ShortRows}
    /\ use_pk \in BOOLEAN
    /\ has_long_columns \in BOOLEAN
    /\ original_batch_size \in BatchSizes
    /\ dst_initial \in {{}, {1}}
    /\ dst_rows = dst_initial
    /\ first_pk = 0
    /\ offset = 0
    /\ batch_size = 0
    /\ calculated_batch_size = 0
    /\ increment_batch = 0
    /\ increment_batch_blocks = 0
    /\ progress_created = FALSE
    /\ rows = {}
    /\ errors = 0
    /\ errno = 0
    /\ reconnected = FALSE
    /\ batch_pos = -1
    /\ fail_pos = -1
    /\ session = NoSession
    /\ fetched_with = 0
    /\ elapsed = 0
    /\ iterations = 0
    /\ throttled = 0
    /\ fast_run = 0
    /\ boosts = 0
    /\ db_name = 0
    /\ dbpc = "grants"
    /\ stage_failed = "none"
    /\ ntables = 0
    /\ tpc = [t \in Tables |-> "none"]
    /\ consumed = {}
    /\ row_count = [t \in Tables |-> 0]
    /\ start_batch = [t \in Tables |-> "none"]
    /\ dst_count = [t \in Tables |-> 0]
    /\ checked = {}
    /\ check_ok = {}
    /\ committed = FALSE
    /\ rolledback = FALSE
    /\ open_pairs = {}
    /\ IdleFleet
    /\ IdleMain
    /\ failed_log = <<>>
    /\ dst_dbs = {}
    /\ IdleAux

\* what the actions of migrate_grants leave alone
grantsFrame == <<db_name, stage_failed, ntables, tpc, consumed, row_count, start_batch,
                 dst_count, checked, check_ok, open_pairs, sharedVars, fleetVars,
                 mainVars, auxVars, result, src_keys, use_pk, has_long_columns,
                 original_batch_size, dst_initial, dst_rows, first_pk, offset,
                 batch_size, calculated_batch_size, increment_batch,
                 increment_batch_blocks, progress_created, rows, errors, errno,
                 reconnected, batch_pos, fail_pos, fetched_with, elapsed, iterations,
                 throttled, fast_run, boosts>>

\* db.py:749-756: connect and start the transaction, then call
\* migrate_table_data. If connect raises, the except clause reads a dst_conn
\* that was never bound and raises itself.
GrantsBegin ==
    /\ dbpc = "grants"
    /\ engpc = "idle"
    /\ \E ok \in BOOLEAN :
         IF ok
         THEN /\ session' = connect("mysql", None)
              /\ engpc' = "setup"
              /\ dbpc' = "grants"
         ELSE /\ dbpc' = "raised"
              /\ UNCHANGED <<session, engpc>>
    /\ UNCHANGED <<committed, rolledback, grantsFrame>>

\* db.py:755-768: what migrate_table_data returned is not read. After a
\* return, (True, None) or (False, ex) alike, commit; after an exception, or
\* if the commit raises, the except clause rolls back.
GrantsEnd ==
    /\ dbpc = "grants"
    /\ engpc = "done"
    /\ IF result = "raised"
       THEN /\ rolledback' = TRUE
            /\ UNCHANGED committed
       ELSE \E ok \in BOOLEAN :
              /\ committed' = ok
              /\ rolledback' = ~ok
    /\ dbpc' = "returned"
    /\ UNCHANGED <<session, engpc, grantsFrame>>

\* The pair has no destination database, so the first INSERT (db.py:521)
\* fails with 1046 and the loop never reaches the end of a batch.
NextGrants == GrantsBegin \/ TableDataSetup \/ Fetch \/ Insert \/ GrantsEnd

SpecGrants == InitGrants /\ [][NextGrants]_vars

\* C40: migrate_grants commits only when the transfer of the table returned
\* success; when it returned (False, error) the transaction is rolled back
\* and nothing is committed.
C40_GrantsCommitOnlyOnSuccess ==
    dbpc = "returned" =>
        /\ committed => result = "ok"
        /\ result = "fail" => (rolledback /\ ~committed)

====
